---- MODULE Spec2Model ----
(***************************************************************************)
(* Habbit-Nested: the task tree (App.tsx), the two-pass mindmap layout     *)
(* (useMindmapLayout) and the viewport / interaction handlers of           *)
(* MindmapView (TaskList).                                                 *)
(*                                                                         *)
(* Task ids are naturals: "sample-1" .. "sample-6" are 1 .. 6 and the ids  *)
(* crypto.randomUUID() hands out are 7, 8, ... (never reused).             *)
(* JavaScript numbers of the viewport are exact rationals <<n, d>> with    *)
(* d > 0 and gcd(n, d) = 1; layout coordinates are integers (every subtree *)
(* height is a sum of 80s and 60s, so the halves taken by layout() are     *)
(* exact).                                                                 *)
(***************************************************************************)
EXTENDS Integers, Sequences, FiniteSets, TLC

VARIABLES
    rect,               \* containerRef.current.getBoundingClientRect()
    tasks,              \* App: useLocalStorage('nested-tasks-v4-nordic')
    connections,        \* App: useLocalStorage('nested-tasks-connections-v1')
    nextId,             \* the next id crypto.randomUUID() returns
    viewMode,           \* App: useState<ViewMode>('mindmap')
    transform,          \* MindmapView: useState({x, y, scale})
    isPanning,          \* MindmapView: useState(false)
    panStart,           \* MindmapView: useState({x: 0, y: 0})
    drawingConnection,  \* MindmapView: useState(null)
    didInitialFit,      \* MindmapView: useRef(false)
    nEvents,            \* number of pointer / wheel / button events handled
    lastEvent,          \* the event handled last
    emitted,            \* the onAddConnection calls that event made, in order
    panOrigin,          \* pointer position and translate at the last
                        \* pointer-down on the background
    draggedTask,        \* App: useState<Task | null>(null)
    clicked,            \* the custom connector clicked last, as <<source, target>>
    token,              \* SettingsPanel: useState('')
    isTokenValid,       \* SettingsPanel: useState<boolean | null>(null)
    isLoading,          \* SettingsPanel: useState(false)
    inFlight,           \* the verifyToken() promises that have not settled
    storedToken,        \* localStorage 'github-token'
    verified,           \* the tokens a verifyToken() call has returned true for
    used                \* the tokens handed to saveToGist()

treeVars == <<tasks, connections, nextId, viewMode>>
viewVars == <<transform, isPanning, panStart, drawingConnection, didInitialFit>>
settingsVars == <<token, isTokenValid, isLoading, inFlight, storedToken, verified, used>>
vars == <<rect, tasks, connections, nextId, viewMode, transform, isPanning, panStart,
          drawingConnection, didInitialFit, nEvents, lastEvent, emitted, panOrigin,
          draggedTask, clicked, token, isTokenValid, isLoading, inFlight, storedToken,
          verified, used>>

----------------------------------------------------------------------------
(* Program constants *)

NODE_WIDTH == 256
NODE_HEIGHT == 80
H_SPACING == 120
V_SPACING == 60

(* Bounds of the model *)

\* how many tasks handleAddTask may create on top of the six sample tasks
MaxNewTasks == 1
\* how many pointer, wheel and Fit-to-View events one behaviour handles
MaxEvents == 3
\* how many of them may be drops of a dragged list item
MaxDrops == 1
\* how many tasks may have a timer at a time
MaxTimers == 1

\* null / undefined: the empty tuple; a present value v is <<v>>
NULL == <<>>
Some(v) == <<v>>

----------------------------------------------------------------------------
(* JavaScript number arithmetic on exact rationals *)

Abs(n) == IF n < 0 THEN -n ELSE n

RECURSIVE GCD(_, _)
GCD(a, b) == IF b = 0 THEN a ELSE GCD(b, a % b)

Rat(n, d) ==
    LET s == IF d < 0 THEN -1 ELSE 1
        g == GCD(Abs(n), Abs(d))
    IN  <<(s * n) \div g, (s * d) \div g>>

RInt(n) == <<n, 1>>
RNeg(a) == <<-a[1], a[2]>>
\* sums over the least common denominator, products with the common factors
\* cancelled first, to keep the intermediate integers small
RAdd(a, b) ==
    LET g == GCD(a[2], b[2])
    IN  Rat(a[1] * (b[2] \div g) + b[1] * (a[2] \div g), (a[2] \div g) * b[2])
RSub(a, b) == RAdd(a, RNeg(b))
RMul(a, b) ==
    LET x == Rat(a[1], b[2])
        y == Rat(b[1], a[2])
    IN  <<x[1] * y[1], x[2] * y[2]>>
RDiv(a, b) == RMul(a, Rat(b[2], b[1]))
RLt(a, b) == a[1] * b[2] < b[1] * a[2]
RLe(a, b) == a[1] * b[2] <= b[1] * a[2]
RMin(a, b) == IF RLt(b, a) THEN b ELSE a
RMax(a, b) == IF RLt(a, b) THEN b ELSE a

----------------------------------------------------------------------------
(* The task tree *)

\* a task that is not completed and has no timer field (the tasks of the
\* sample data); an absent field is NULL
Task(id, collapsed, children) ==
    [id |-> id, completed |-> FALSE, collapsed |-> collapsed, children |-> children,
     timerDuration |-> NULL, timerRemaining |-> NULL, timerState |-> NULL]

\* the newTask of handleAddTask
NewTask(id) == [Task(id, FALSE, <<>>) EXCEPT !.timerState = Some("Idle")]

\* sample-5 is the one completed task of the sample data
sampleData ==
    << Task(1, FALSE, << Task(2, FALSE, <<>>), Task(3, FALSE, <<>>) >>),
       Task(4, TRUE,  << [Task(5, FALSE, <<>>) EXCEPT !.completed = TRUE],
                         Task(6, FALSE, <<>>) >>) >>

sampleConnections == (3 :> <<6>>)

FirstNewId == 7

(* The mutations the handlers pass to mapTaskTree, as data:                 *)
(*   [op |-> "toggleCollapse"]           handleToggleCollapse              *)
(*   [op |-> "addChild", task |-> t]     handleAddTask with a parentId     *)
(*   [op |-> "toggleComplete", completed |-> c]   handleToggleComplete     *)
(*   [op |-> "setTimer", duration |-> d]          handleSetTimer           *)
(*   [op |-> "timerControl", control |-> c]       handleTimerControl       *)
\* toggleChildren of handleToggleComplete
RECURSIVE toggleChildren(_, _)
toggleChildren(ts, newCompleted) ==
    [i \in 1..Len(ts) |->
        [ts[i] EXCEPT !.completed = newCompleted,
                      !.children = toggleChildren(ts[i].children, newCompleted)]]

\* the switch of handleTimerControl
TimerControl(task, control) ==
    CASE control = "start" -> [task EXCEPT !.timerState = Some("Running")]
      [] control = "pause" -> [task EXCEPT !.timerState = Some("Paused")]
      [] control = "reset" -> [task EXCEPT !.timerDuration = NULL,
                                           !.timerRemaining = NULL,
                                           !.timerState = Some("Idle")]
      [] control = "extend" ->
            IF task.timerDuration # NULL
            THEN [task EXCEPT !.timerRemaining = task.timerDuration,
                              !.timerState = Some("Running")]
            ELSE task

Mutate(mutation, task) ==
    CASE mutation.op = "toggleCollapse" ->
            [task EXCEPT !.collapsed = ~task.collapsed]
      [] mutation.op = "toggleComplete" ->
            [task EXCEPT !.completed = mutation.completed,
                         !.children = toggleChildren(task.children, mutation.completed)]
      [] mutation.op = "addChild" ->
            [task EXCEPT !.collapsed = FALSE,
                         !.children = Append(task.children, mutation.task)]
      [] mutation.op = "setTimer" ->
            [task EXCEPT !.timerDuration = Some(mutation.duration),
                         !.timerRemaining = Some(mutation.duration),
                         !.timerState = Some("Idle")]
      [] mutation.op = "timerControl" -> TimerControl(task, mutation.control)

RECURSIVE mapTaskTree(_, _, _)
mapTaskTree(ts, id, mutation) ==
    [i \in 1..Len(ts) |->
        IF ts[i].id = id THEN Mutate(mutation, ts[i])
        ELSE IF Len(ts[i].children) > 0
             THEN [ts[i] EXCEPT !.children = mapTaskTree(ts[i].children, id, mutation)]
             ELSE ts[i]]

\* bug variant: a paused timer is counted down as well
RECURSIVE tick(_)
TickOneCountsPaused(task) ==
    LET newSubtask == [task EXCEPT !.children = tick(task.children)] IN
    IF /\ newSubtask.timerState \in {Some("Running"), Some("Paused")}
       /\ newSubtask.timerRemaining # NULL
       /\ newSubtask.timerRemaining[1] > 0
    THEN LET newRemaining == newSubtask.timerRemaining[1] - 1 IN
         IF newRemaining <= 0
         THEN [newSubtask EXCEPT !.timerRemaining = Some(0),
                                 !.timerState = Some("Finished")]
         ELSE [newSubtask EXCEPT !.timerRemaining = Some(newRemaining)]
    ELSE newSubtask

\* lines 67-78: what tick maps a task to
TickOne(task) ==
    LET newSubtask == [task EXCEPT !.children = tick(task.children)] IN
    IF /\ newSubtask.timerState = Some("Running")
       /\ newSubtask.timerRemaining # NULL
       /\ newSubtask.timerRemaining[1] > 0
    THEN LET newRemaining == newSubtask.timerRemaining[1] - 1 IN
         IF newRemaining <= 0
         THEN [newSubtask EXCEPT !.timerRemaining = Some(0),
                                 !.timerState = Some("Finished")]
         ELSE [newSubtask EXCEPT !.timerRemaining = Some(newRemaining)]
    ELSE newSubtask

\* tick of the one-second interval
tick(ts) == [i \in 1..Len(ts) |-> TickOne(ts[i])]

\* tasks.filter(keep) on a sequence
RECURSIVE SeqFilter(_, _)
SeqFilter(s, keepIds) ==
    IF s = <<>> THEN <<>>
    ELSE IF Head(s).id \in keepIds
         THEN <<Head(s)>> \o SeqFilter(Tail(s), keepIds)
         ELSE SeqFilter(Tail(s), keepIds)

\* every id of a forest, hidden nodes included
RECURSIVE AllIds(_)
AllIds(ts) ==
    UNION { {ts[i].id} \cup AllIds(ts[i].children) : i \in 1..Len(ts) }

\* the ids of the task items that are rendered: a task item renders its
\* children only when it is not collapsed
RECURSIVE VisibleIds(_)
VisibleIds(ts) ==
    UNION { {ts[i].id} \cup (IF ts[i].collapsed THEN {} ELSE VisibleIds(ts[i].children))
            : i \in 1..Len(ts) }

\* findTaskInTree of handleDelete: the first task with that id in pre-order
RECURSIVE findTaskInTree(_, _)
findTaskInTree(tasksToSearch, targetId) ==
    IF tasksToSearch = <<>> THEN NULL
    ELSE LET task == Head(tasksToSearch) IN
         IF task.id = targetId THEN Some(task)
         ELSE LET foundInChildren == findTaskInTree(task.children, targetId) IN
              IF foundInChildren # NULL THEN foundInChildren
              ELSE findTaskInTree(Tail(tasksToSearch), targetId)

\* collectIds of handleDelete
collectIds(task) == AllIds(<<task>>)

\* cleanTree of handleDelete
RECURSIVE cleanTree(_, _)
cleanTree(ts, deletedIds) ==
    LET kept == SeqFilter(ts, {ts[i].id : i \in 1..Len(ts)} \ deletedIds)
    IN  [i \in 1..Len(kept) |->
            [kept[i] EXCEPT !.children = cleanTree(kept[i].children, deletedIds)]]

\* filterCompleted of handleClearCompleted
RECURSIVE filterCompleted(_)
filterCompleted(ts) ==
    LET kept == SelectSeq(ts, LAMBDA t : ~t.completed)
    IN  [i \in 1..Len(kept) |->
            [kept[i] EXCEPT !.children = filterCompleted(kept[i].children)]]

\* bug variant: the dragged task is looked for among the top-level tasks only
removeTaskTopLevelOnly(ts, id) == SelectSeq(ts, LAMBDA t : t.id # id)

\* removeTask of handleDrop
RECURSIVE removeTask(_, _)
removeTask(ts, id) ==
    LET kept == SelectSeq(ts, LAMBDA t : t.id # id)
    IN  [i \in 1..Len(kept) |->
            [kept[i] EXCEPT !.children = removeTask(kept[i].children, id)]]

\* tasks.findIndex(t => t.id === targetId), 1-based; 0 when there is none
RECURSIVE findIndex(_, _, _)
findIndex(ts, targetId, i) ==
    IF i > Len(ts) THEN 0
    ELSE IF ts[i].id = targetId THEN i
    ELSE findIndex(ts, targetId, i + 1)

\* newTasks.splice(at, 0, taskToAdd): taskToAdd comes after the first at
\* elements
splice(ts, at, taskToAdd) ==
    SubSeq(ts, 1, at) \o <<taskToAdd>> \o SubSeq(ts, at + 1, Len(ts))

\* addTask of handleDrop
RECURSIVE addTask(_, _, _, _)
addTask(ts, targetId, taskToAdd, pos) ==
    IF pos = "child"
    THEN [i \in 1..Len(ts) |->
            IF ts[i].id = targetId
            THEN [ts[i] EXCEPT !.collapsed = FALSE,
                               !.children = Append(ts[i].children, taskToAdd)]
            ELSE [ts[i] EXCEPT !.children =
                     addTask(ts[i].children, targetId, taskToAdd, pos)]]
    ELSE LET targetIndex == findIndex(ts, targetId, 1) IN
         IF targetIndex # 0
         THEN splice(ts, targetIndex - 1 + (IF pos = "bottom" THEN 1 ELSE 0), taskToAdd)
         ELSE [i \in 1..Len(ts) |->
                 [ts[i] EXCEPT !.children =
                     addTask(ts[i].children, targetId, taskToAdd, pos)]]

\* setCollapsed of handleExpandAll / handleCollapseAll
RECURSIVE setCollapsed(_, _)
setCollapsed(ts, isCollapsed) ==
    [i \in 1..Len(ts) |->
        [ts[i] EXCEPT !.collapsed = isCollapsed,
                      !.children = setCollapsed(ts[i].children, isCollapsed)]]

\* bug variant: only the connections that start at a deleted task are dropped
cleanConnectionsOfSources(currentConnections, deletedIds) ==
    [sourceId \in DOMAIN currentConnections \ deletedIds |->
        currentConnections[sourceId]]

\* the setConnections updater of handleDelete
cleanConnections(currentConnections, deletedIds) ==
    LET newTargets(sourceId) ==
            SelectSeq(currentConnections[sourceId], LAMBDA t : t \notin deletedIds)
        keep == { sourceId \in DOMAIN currentConnections :
                    sourceId \notin deletedIds /\ Len(newTargets(sourceId)) > 0 }
    IN  [sourceId \in keep |-> newTargets(sourceId)]

----------------------------------------------------------------------------
(* useMindmapLayout *)

\* subtreeHeights.set(id, height)
MapSet(m, id, height) ==
    [k \in DOMAIN m \cup {id} |-> IF k = id THEN height ELSE m[k]]

\* bug variant: one gap per child instead of one between children
ExpandedHeightGapPerChild(childrenHeight, k) == childrenHeight + k * V_SPACING

\* line 62: the height of an expanded node from its children's heights
ExpandedHeight(childrenHeight, k) == childrenHeight + (k - 1) * V_SPACING

\* Pass 1.  calculateSubtreeHeight(task) run on the map m: the map afterwards.
\* The value the call returns is the entry of task.id in that map.
RECURSIVE calculateSubtreeHeight(_, _)
RECURSIVE SumChildren(_, _, _)
\* task.children.map(calculateSubtreeHeight).reduce(sum): the map after the
\* calls for children i.., and the sum of the values they returned
SumChildren(children, i, m) ==
    IF i > Len(children) THEN [map |-> m, sum |-> 0]
    ELSE LET m1 == calculateSubtreeHeight(children[i], m)
             h == m1[children[i].id]
             rest == SumChildren(children, i + 1, m1)
         IN  [map |-> rest.map, sum |-> h + rest.sum]

calculateSubtreeHeight(task, m) ==
    IF task.id \in DOMAIN m THEN m
    ELSE IF task.collapsed \/ Len(task.children) = 0
         THEN MapSet(m, task.id, NODE_HEIGHT)
         ELSE LET r == SumChildren(task.children, 1, m)
              IN  MapSet(r.map, task.id, ExpandedHeight(r.sum, Len(task.children)))

RECURSIVE HeightsFrom(_, _, _)

\* bug variant: the metrics pass stops after the second top-level task
HeightsFromFirstTwo(ts, i, m) ==
    IF i > Len(ts) \/ i > 2 THEN m
    ELSE HeightsFrom(ts, i + 1, calculateSubtreeHeight(ts[i], m))

\* tasks.forEach(calculateSubtreeHeight)
HeightsFrom(ts, i, m) ==
    IF i > Len(ts) THEN m
    ELSE HeightsFrom(ts, i + 1, calculateSubtreeHeight(ts[i], m))

EmptyMap == [k \in {} |-> 0]

subtreeHeights(ts) == HeightsFrom(ts, 1, EmptyMap)

\* bug variants of the four coordinate formulas below
NodeXWithoutSpacing(depth) == depth * NODE_WIDTH
NodeYAtBandStart(startY, subtreeHeight) == startY
NextChildStartYWithoutHeight(childStartY, childHeight) == childStartY + V_SPACING
NextRootYSingleGap(currentY, rootHeight) == currentY + rootHeight + V_SPACING

\* line 72
NodeX(depth) == depth * (NODE_WIDTH + H_SPACING)
\* line 73 (subtreeHeight and NODE_HEIGHT are even)
NodeY(startY, subtreeHeight) == startY + (subtreeHeight \div 2) - (NODE_HEIGHT \div 2)
\* line 83
NextChildStartY(childStartY, childHeight) == childStartY + childHeight + V_SPACING
\* line 91
NextRootY(currentY, rootHeight) == currentY + rootHeight + V_SPACING * 2

Max(a, b) == IF a > b THEN a ELSE b

\* bug variant: the extent of the box's origin, not of its far edge
ExtentOfOrigin(current, coordinate, size) == Max(current, coordinate)

\* lines 76-77: Math.max(max, coordinate + size)
Extent(current, coordinate, size) == Max(current, coordinate + size)

\* Pass 2.  layout(task, depth, startY) run on the accumulator
\* acc = [positions, maxWidth, maxHeight], reading the height map m
RECURSIVE layout(_, _, _, _, _)
RECURSIVE LayoutChildren(_, _, _, _, _, _)

\* bug variant: the loop stops one child early
LayoutChildrenSkipLast(children, i, depth, childStartY, m, acc) ==
    IF i >= Len(children) THEN acc
    ELSE LayoutChildren(children, i + 1, depth,
                        NextChildStartY(childStartY, m[children[i].id]), m,
                        layout(children[i], depth, childStartY, m, acc))

LayoutChildren(children, i, depth, childStartY, m, acc) ==
    IF i > Len(children) THEN acc
    ELSE LayoutChildren(children, i + 1, depth,
                        NextChildStartY(childStartY, m[children[i].id]), m,
                        layout(children[i], depth, childStartY, m, acc))

layout(task, depth, startY, m, acc) ==
    LET subtreeHeight == m[task.id]
        x == NodeX(depth)
        y == NodeY(startY, subtreeHeight)
        acc1 == [positions |-> Append(acc.positions,
                                      [task |-> task, x |-> x, y |-> y, depth |-> depth]),
                 maxWidth  |-> Extent(acc.maxWidth, x, NODE_WIDTH),
                 maxHeight |-> Extent(acc.maxHeight, y, NODE_HEIGHT)]
    IN  IF ~task.collapsed /\ Len(task.children) > 0
        THEN LayoutChildren(task.children, 1, depth + 1, startY, m, acc1)
        ELSE acc1

\* the loop over the top-level tasks
RECURSIVE LayoutRoots(_, _, _, _, _)

\* bug variant: the top-level tasks are stacked in reverse array order
LayoutRootsReversed(ts, i, currentY, m, acc) ==
    IF i > Len(ts) THEN acc
    ELSE LET task == ts[Len(ts) + 1 - i] IN
         LayoutRoots(ts, i + 1, NextRootY(currentY, m[task.id]), m,
                     layout(task, 0, currentY, m, acc))

LayoutRoots(ts, i, currentY, m, acc) ==
    IF i > Len(ts) THEN acc
    ELSE LayoutRoots(ts, i + 1, NextRootY(currentY, m[ts[i].id]), m,
                     layout(ts[i], 0, currentY, m, acc))

useMindmapLayout(ts) ==
    LET r == LayoutRoots(ts, 1, 0, subtreeHeights(ts),
                         [positions |-> <<>>, maxWidth |-> 0, maxHeight |-> 0])
    IN  [positions |-> r.positions, width |-> r.maxWidth, height |-> r.maxHeight]

----------------------------------------------------------------------------
(* MindmapView: viewport and interaction state *)

\* the container's bounding rectangles the browser may report (w-full h-[80vh])
ContainerRects ==
    { [left |-> 16, top |-> 120, width |-> 1200, height |-> 700] }

\* clientX / clientY of the pointer events
PointerPositions == { <<116, 220>>, <<640, 400>> }

\* e.deltaY of the wheel events
WheelDeltas == { -700, 500 }

ViewModes == { "mindmap", "list" }

\* TaskList renders MindmapView only for a non-empty tree in mindmap mode
Mounted(ts, vm) == ts # <<>> /\ vm = "mindmap"

\* the state of a MindmapView that has just been mounted (the useState and
\* useRef initial values)
FreshView ==
    [transform |-> [x |-> RInt(50), y |-> RInt(50), scale |-> RInt(1)],
     isPanning |-> FALSE,
     panStart |-> [x |-> RInt(0), y |-> RInt(0)],
     drawingConnection |-> NULL,
     didInitialFit |-> FALSE]

CurrentView ==
    [transform |-> transform, isPanning |-> isPanning, panStart |-> panStart,
     drawingConnection |-> drawingConnection, didInitialFit |-> didInitialFit]

\* bug variant: fits the dimension with more room
FitScaleOfLarger(scaleX, scaleY) == RMul(RMax(scaleX, scaleY), Rat(9, 10))

\* line 122: Math.min(scaleX, scaleY) * marginFactor
FitScale(scaleX, scaleY) == RMul(RMin(scaleX, scaleY), Rat(9, 10))

\* bug variant: the degenerate canvas is put at the origin
handleFitToViewDegenerateAtOrigin(canvasWidth, canvasHeight, r) ==
    IF canvasWidth = 0 \/ canvasHeight = 0
    THEN [x |-> RInt(0), y |-> RInt(0), scale |-> RInt(1)]
    ELSE LET scale == FitScale(RDiv(RInt(r.width), RInt(canvasWidth)),
                               RDiv(RInt(r.height), RInt(canvasHeight)))
         IN  [x |-> RDiv(RSub(RInt(r.width), RMul(RInt(canvasWidth), scale)), RInt(2)),
              y |-> RDiv(RSub(RInt(r.height), RMul(RInt(canvasHeight), scale)), RInt(2)),
              scale |-> scale]

\* handleFitToView: the transform it sets (containerRef.current is set
\* whenever MindmapView is mounted)
handleFitToView(canvasWidth, canvasHeight, r) ==
    IF canvasWidth = 0 \/ canvasHeight = 0
    THEN [x |-> RInt(50), y |-> RInt(50), scale |-> RInt(1)]
    ELSE LET viewWidth == RInt(r.width)
             viewHeight == RInt(r.height)
             scaleX == RDiv(viewWidth, RInt(canvasWidth))
             scaleY == RDiv(viewHeight, RInt(canvasHeight))
             scale == FitScale(scaleX, scaleY)
             scaledWidth == RMul(RInt(canvasWidth), scale)
             scaledHeight == RMul(RInt(canvasHeight), scale)
             x == RDiv(RSub(viewWidth, scaledWidth), RInt(2))
             y == RDiv(RSub(viewHeight, scaledHeight), RInt(2))
         IN  [x |-> x, y |-> y, scale |-> scale]

\* The view state once React has rendered the tree ts in mode vm and run the
\* effects: an unmounted MindmapView loses its state, a mounted one runs the
\* auto-fit effect of lines 133-142
Render(ts, vm, v, r) ==
    IF ~Mounted(ts, vm) THEN FreshView
    ELSE LET l == useMindmapLayout(ts) IN
         IF ~v.didInitialFit /\ l.width > 0 /\ l.height > 0
         THEN [v EXCEPT !.transform = handleFitToView(l.width, l.height, r),
                        !.didInitialFit = TRUE]
         ELSE v

\* the view variables after the handler's state updates have been rendered
Commit(ts, vm, v) ==
    LET w == Render(ts, vm, v, rect) IN
    /\ transform' = w.transform
    /\ isPanning' = w.isPanning
    /\ panStart' = w.panStart
    /\ drawingConnection' = w.drawingConnection
    /\ didInitialFit' = w.didInitialFit

\* line 147: Math.min(Math.max(0.2, scale + scaleAmount), 2)
ClampScale(s) == RMin(RMax(Rat(2, 10), s), RInt(2))

\* bug variant: scales by the new scale instead of the ratio of the scales
ZoomTranslateByNewScale(mouse, t, newScale, scale) ==
    RSub(mouse, RMul(RSub(mouse, t), newScale))

\* lines 154-155: mouse - (mouse - t) * (newScale / scale)
ZoomTranslate(mouse, t, newScale, scale) ==
    RSub(mouse, RMul(RSub(mouse, t), RDiv(newScale, scale)))

\* the transform handleWheel sets
WheelTransform(t, deltaY, clientX, clientY, r) ==
    LET scaleAmount == Rat(-deltaY, 1000)
        newScale == ClampScale(RAdd(t.scale, scaleAmount))
        mouseX == RInt(clientX - r.left)
        mouseY == RInt(clientY - r.top)
    IN  [x |-> ZoomTranslate(mouseX, t.x, newScale, t.scale),
         y |-> ZoomTranslate(mouseY, t.y, newScale, t.scale),
         scale |-> newScale]

\* bug variant: the translate at the pointer-down is not taken into account
PanStartWithoutTranslate(client, t) == RInt(client)

\* line 164: e.clientX - transform.x
PanStart(client, t) == RSub(RInt(client), t)

\* lines 170-171: e.clientX - panStart.x
PanTranslate(client, start) == RSub(RInt(client), start)

\* lines 175-176 / 213-214: screen point to canvas coordinates
ToCanvas(client, offset, t, scale) ==
    RDiv(RSub(RInt(client - offset), t), scale)

\* posMap.get(id): the NodePosition of id, or NULL
PosOf(positions, id) ==
    LET hits == SelectSeq(positions, LAMBDA p : p.task.id = id)
    IN  IF hits = <<>> THEN NULL ELSE Some(hits[Len(hits)])

\* bug variant: the target is pushed without the includes() test
addConnectionAlwaysPush(prev, sourceId, targetId) ==
    LET old == IF sourceId \in DOMAIN prev THEN prev[sourceId] ELSE <<>>
    IN  [k \in DOMAIN prev \cup {sourceId} |->
            IF k = sourceId THEN Append(old, targetId) ELSE prev[k]]

\* the setConnections updater of handleAddConnection
addConnection(prev, sourceId, targetId) ==
    LET old == IF sourceId \in DOMAIN prev THEN prev[sourceId] ELSE <<>>
        newTargets == IF \E i \in 1..Len(old) : old[i] = targetId
                      THEN old ELSE Append(old, targetId)
    IN  [k \in DOMAIN prev \cup {sourceId} |->
            IF k = sourceId THEN newTargets ELSE prev[k]]

\* bug variant: a source that has lost its last target keeps an empty list
handleDeleteConnectionKeepsEmptyEntry(prev, sourceId, targetId) ==
    LET old == IF sourceId \in DOMAIN prev THEN prev[sourceId] ELSE <<>>
        newTargets == SelectSeq(old, LAMBDA id : id # targetId)
    IN  [k \in DOMAIN prev \cup {sourceId} |->
            IF k = sourceId THEN newTargets ELSE prev[k]]

\* the setConnections updater of handleDeleteConnection
handleDeleteConnection(prev, sourceId, targetId) ==
    LET old == IF sourceId \in DOMAIN prev THEN prev[sourceId] ELSE <<>>
        newTargets == SelectSeq(old, LAMBDA id : id # targetId)
    IN  IF Len(newTargets) > 0
        THEN [k \in DOMAIN prev \cup {sourceId} |->
                 IF k = sourceId THEN newTargets ELSE prev[k]]
        ELSE [k \in DOMAIN prev \ {sourceId} |-> prev[k]]

\* bug variant: the hit test reaches task nodes outside the container's box
closestTaskUnclipped(inContainer, over) == over

\* document.elementFromPoint(clientX, clientY)?.closest('[data-task-id]') as
\* a task id or NULL.  over: the task node whose box the point lies in, or
\* NULL; inContainer: the point lies in the container.  The nodes are
\* descendants of the container, which clips them (overflow-hidden), and no
\* element outside it carries data-task-id
closestTask(inContainer, over) == IF inContainer THEN over ELSE NULL

\* bug variant: the test against the source id is missing
MouseUpRequestsAllowSelf(drawing, hit) ==
    IF drawing # NULL /\ hit # NULL
    THEN << <<drawing[1].sourceId, hit[1]>> >>
    ELSE <<>>

\* lines 188-195 of handleMouseUp: the handlers.onAddConnection(sourceId,
\* targetId) calls it makes, in order
MouseUpRequests(drawing, hit) ==
    IF drawing # NULL /\ hit # NULL /\ hit[1] # drawing[1].sourceId
    THEN << <<drawing[1].sourceId, hit[1]>> >>
    ELSE <<>>

\* the connections after App has handled the calls
RECURSIVE ApplyRequests(_, _)
ApplyRequests(prev, requests) ==
    IF requests = <<>> THEN prev
    ELSE ApplyRequests(addConnection(prev, requests[1][1], requests[1][2]),
                       Tail(requests))

----------------------------------------------------------------------------
(* The connectors of MindmapView.  A path  M sx sy C c1x c1y, c2x c2y, ex ey *)
(* is the tuple <<sx, sy, c1x, c1y, c2x, c2y, ex, ey>> of its numbers.      *)

\* bug variant: the connector leaves from the left edge of the source
AnchorOutAtLeftEdge(pos) == [x |-> pos.x, y |-> pos.y + NODE_HEIGHT \div 2]

\* lines 232-233 and 255-256: the right-edge midpoint of the source node
AnchorOut(pos) == [x |-> pos.x + NODE_WIDTH, y |-> pos.y + NODE_HEIGHT \div 2]

\* lines 234-235 and 257-258: the left-edge midpoint of the target node
AnchorIn(pos) == [x |-> pos.x, y |-> pos.y + NODE_HEIGHT \div 2]

\* lines 238-239 and 279-280: the S-curve
SCurve(start, end) ==
    LET curveFactor == RMul(RInt(end.x - start.x), Rat(4, 10))
    IN  << RInt(start.x), RInt(start.y),
           RAdd(RInt(start.x), curveFactor), RInt(start.y),
           RSub(RInt(end.x), curveFactor), RInt(end.y),
           RInt(end.x), RInt(end.y) >>

\* bug variant: a connection at the very middle of the canvas goes above
DetourYTieAbove(midPointY, canvasHeight, verticalGap) ==
    IF RLe(midPointY, Rat(canvasHeight, 2))
    THEN RInt(-verticalGap)
    ELSE RInt(canvasHeight + verticalGap)

\* lines 269-271: above the diagram for a connection in its top half, below
\* it otherwise
DetourY(midPointY, canvasHeight, verticalGap) ==
    IF RLt(midPointY, Rat(canvasHeight, 2))
    THEN RInt(-verticalGap)
    ELSE RInt(canvasHeight + verticalGap)

\* lines 264-276: the arc of a connection from a deeper to a shallower node
Arc(start, end, canvasHeight) ==
    LET midPointY == Rat(start.y + end.y, 2)
        verticalGap == 100
        detourY == DetourY(midPointY, canvasHeight, verticalGap)
        controlPointXOffset ==
            RMax(RInt(60), RMul(RInt(start.x - end.x), Rat(2, 10)))
    IN  << RInt(start.x), RInt(start.y),
           RAdd(RInt(start.x), controlPointXOffset), detourY,
           RSub(RInt(end.x), controlPointXOffset), detourY,
           RInt(end.x), RInt(end.y) >>

\* lines 229-244: the connectors from sourcePos to its children i..
RECURSIVE ChildConnectors(_, _, _)
ChildConnectors(positions, sourcePos, i) ==
    IF i > Len(sourcePos.task.children) THEN <<>>
    ELSE LET childPos == PosOf(positions, sourcePos.task.children[i].id)
             rest == ChildConnectors(positions, sourcePos, i + 1)
         IN  IF childPos = NULL THEN rest
             ELSE << [d |-> SCurve(AnchorOut(sourcePos), AnchorIn(childPos[1])),
                      className |-> childPos[1].depth % 5] >> \o rest

\* lines 226-246: nodePositions.forEach from position i on
RECURSIVE HConnectorsFrom(_, _)
HConnectorsFrom(positions, i) ==
    IF i > Len(positions) THEN <<>>
    ELSE (IF ~positions[i].task.collapsed /\ Len(positions[i].task.children) > 0
          THEN ChildConnectors(positions, positions[i], 1)
          ELSE <<>>) \o HConnectorsFrom(positions, i + 1)

hierarchicalConnectors(positions) == HConnectorsFrom(positions, 1)

\* lines 252-284: the connectors from sourcePos to the targets i..
RECURSIVE TargetConnectors(_, _, _, _, _)
TargetConnectors(positions, sourcePos, targetIds, i, canvasHeight) ==
    IF i > Len(targetIds) THEN <<>>
    ELSE LET targetPos == PosOf(positions, targetIds[i])
             rest == TargetConnectors(positions, sourcePos, targetIds, i + 1, canvasHeight)
         IN  IF targetPos = NULL THEN rest
             ELSE << [d |-> IF sourcePos.depth > targetPos[1].depth
                            THEN Arc(AnchorOut(sourcePos), AnchorIn(targetPos[1]),
                                     canvasHeight)
                            ELSE SCurve(AnchorOut(sourcePos), AnchorIn(targetPos[1])),
                      sourceId |-> sourcePos.task.id,
                      targetId |-> targetIds[i]] >> \o rest

\* lines 248-286: Object.entries(connections).forEach over the sources in
\* sourceIds.  (Object.entries lists the keys in insertion order, which the
\* map of the model does not keep: the sources are taken in ascending order.)
RECURSIVE CConnectorsFrom(_, _, _, _)
CConnectorsFrom(positions, conns, sourceIds, canvasHeight) ==
    IF sourceIds = {} THEN <<>>
    ELSE LET sourceId == CHOOSE k \in sourceIds : \A j \in sourceIds : k <= j
             sourcePos == PosOf(positions, sourceId)
         IN  (IF sourcePos = NULL THEN <<>>
              ELSE TargetConnectors(positions, sourcePos[1], conns[sourceId], 1,
                                    canvasHeight))
             \o CConnectorsFrom(positions, conns, sourceIds \ {sourceId}, canvasHeight)

\* bug variant: only the first target of each source gets a connector
customConnectorsFirstTargetOnly(positions, conns, canvasHeight) ==
    CConnectorsFrom(positions, [s \in DOMAIN conns |-> SubSeq(conns[s], 1, 1)],
                    DOMAIN conns, canvasHeight)

customConnectors(positions, conns, canvasHeight) ==
    CConnectorsFrom(positions, conns, DOMAIN conns, canvasHeight)

----------------------------------------------------------------------------
(* Initial state: first run (sample data), MindmapView mounted and its      *)
(* auto-fit effect run                                                     *)

\* no SettingsPanel has been opened: its state is the one it is constructed
\* with, and localStorage holds no token
SettingsUnused ==
    /\ token = ""
    /\ isTokenValid = NULL
    /\ isLoading = FALSE
    /\ inFlight = {}
    /\ storedToken = NULL
    /\ verified = {}
    /\ used = {}

Init ==
    /\ rect \in ContainerRects
    /\ tasks = sampleData
    /\ connections = sampleConnections
    /\ nextId = FirstNewId
    /\ viewMode = "mindmap"
    /\ LET w == Render(sampleData, "mindmap", FreshView, rect) IN
       /\ transform = w.transform
       /\ isPanning = w.isPanning
       /\ panStart = w.panStart
       /\ drawingConnection = w.drawingConnection
       /\ didInitialFit = w.didInitialFit
    /\ nEvents = 0
    /\ lastEvent = "mount"
    /\ emitted = <<>>
    /\ panOrigin = NULL
    /\ draggedTask = NULL
    /\ clicked = NULL
    /\ SettingsUnused

\* the task trees and the container boxes handleFitToView is applied to
FitTrees ==
    { <<>>, sampleData, setCollapsed(sampleData, TRUE), setCollapsed(sampleData, FALSE),
      <<sampleData[1]>>, <<Task(1, FALSE, <<>>)>>,
      <<Task(1, FALSE, <<Task(2, FALSE, <<Task(3, FALSE, <<>>)>>)>>)>> }

FitRects ==
    { [left |-> 16, top |-> 120, width |-> 1200, height |-> 700],
      [left |-> 16, top |-> 120, width |-> 800, height |-> 600],
      [left |-> 16, top |-> 120, width |-> 500, height |-> 900] }

\* translate and scale a pan and a zoom have left behind
FitTransforms == { [x |-> RInt(-30), y |-> RInt(200), scale |-> Rat(1, 2)] }

\* a MindmapView given one of FitTrees, its effects run, as mounted or with
\* one of FitTransforms
InitFit ==
    /\ rect \in FitRects
    /\ tasks \in FitTrees
    /\ connections = sampleConnections
    /\ nextId = FirstNewId
    /\ viewMode = "mindmap"
    /\ LET w == Render(tasks, "mindmap", FreshView, rect) IN
       /\ transform \in {w.transform} \cup FitTransforms
       /\ isPanning = w.isPanning
       /\ panStart = w.panStart
       /\ drawingConnection = w.drawingConnection
       /\ didInitialFit = w.didInitialFit
    /\ nEvents = 0
    /\ lastEvent = "mount"
    /\ emitted = <<>>
    /\ panOrigin = NULL
    /\ draggedTask = NULL
    /\ clicked = NULL
    /\ SettingsUnused

----------------------------------------------------------------------------
(* App handlers on the task tree *)

\* the toggle button of a rendered task item: the mindmap node shows it when
\* the task has children or is not collapsed, the list item when it has children
CanToggle(task) ==
    IF viewMode = "mindmap"
    THEN Len(task.children) > 0 \/ ~task.collapsed
    ELSE Len(task.children) > 0

\* handleAddTask(title, type, null)
handleAddTask ==
    /\ nextId < FirstNewId + MaxNewTasks
    /\ tasks' = Append(tasks, NewTask(nextId))
    /\ nextId' = nextId + 1
    /\ Commit(tasks', viewMode, CurrentView)
    /\ UNCHANGED <<settingsVars, draggedTask, clicked, rect, connections, viewMode, nEvents, lastEvent, emitted, panOrigin>>

\* handleAddTask(title, type, parentId), from the subtask editor of a task item
handleAddSubtask(parentId) ==
    /\ nextId < FirstNewId + MaxNewTasks
    /\ tasks' = mapTaskTree(tasks, parentId,
                            [op |-> "addChild", task |-> NewTask(nextId)])
    /\ nextId' = nextId + 1
    /\ Commit(tasks', viewMode, CurrentView)
    /\ UNCHANGED <<settingsVars, draggedTask, clicked, rect, connections, viewMode, nEvents, lastEvent, emitted, panOrigin>>

handleToggleCollapse(id) ==
    /\ tasks' = mapTaskTree(tasks, id, [op |-> "toggleCollapse"])
    /\ Commit(tasks', viewMode, CurrentView)
    /\ UNCHANGED <<settingsVars, draggedTask, clicked, rect, connections, nextId, viewMode, nEvents, lastEvent, emitted, panOrigin>>

\* handleDelete(id), the confirm() dialog accepted
handleDelete(id) ==
    LET taskToDelete == findTaskInTree(tasks, id) IN
    /\ taskToDelete # NULL
    /\ LET deletedIds == collectIds(taskToDelete[1]) IN
       /\ tasks' = cleanTree(tasks, deletedIds)
       /\ connections' = cleanConnections(connections, deletedIds)
    /\ Commit(tasks', viewMode, CurrentView)
    /\ UNCHANGED <<settingsVars, draggedTask, clicked, rect, nextId, viewMode, nEvents, lastEvent, emitted, panOrigin>>

handleExpandAll ==
    /\ tasks' = setCollapsed(tasks, FALSE)
    /\ Commit(tasks', viewMode, CurrentView)
    /\ UNCHANGED <<settingsVars, draggedTask, clicked, rect, connections, nextId, viewMode, nEvents, lastEvent, emitted, panOrigin>>

handleCollapseAll ==
    /\ tasks' = setCollapsed(tasks, TRUE)
    /\ Commit(tasks', viewMode, CurrentView)
    /\ UNCHANGED <<settingsVars, draggedTask, clicked, rect, connections, nextId, viewMode, nEvents, lastEvent, emitted, panOrigin>>

\* computeProgress of TaskItem: the completed and all leaves of the subtree
RECURSIVE computeProgress(_)
RECURSIVE SumProgress(_, _)
SumProgress(children, i) ==
    IF i > Len(children) THEN [done |-> 0, total |-> 0]
    ELSE LET childProgress == computeProgress(children[i])
             acc == SumProgress(children, i + 1)
         IN  [done |-> childProgress.done + acc.done,
              total |-> childProgress.total + acc.total]

computeProgress(task) ==
    IF Len(task.children) = 0
    THEN [done |-> IF task.completed THEN 1 ELSE 0, total |-> 1]
    ELSE SumProgress(task.children, 1)

\* isCompleted of TaskItem: what its checkbox shows
isCompleted(task) ==
    IF Len(task.children) > 0
    THEN LET progress == computeProgress(task) IN progress.done = progress.total
    ELSE task.completed

\* the checkbox of a task item: handleToggleComplete(id, !isCompleted)
handleToggleComplete(id) ==
    LET task == findTaskInTree(tasks, id) IN
    /\ task # NULL
    /\ tasks' = mapTaskTree(tasks, id,
                            [op |-> "toggleComplete", completed |-> ~isCompleted(task[1])])
    /\ Commit(tasks', viewMode, CurrentView)
    /\ UNCHANGED <<settingsVars, draggedTask, clicked, rect, connections, nextId, viewMode, nEvents, lastEvent, emitted, panOrigin>>

\* handleClearCompleted, the confirm() dialog accepted
handleClearCompleted ==
    /\ tasks' = filterCompleted(tasks)
    /\ Commit(tasks', viewMode, CurrentView)
    /\ UNCHANGED <<settingsVars, draggedTask, clicked, rect, connections, nextId, viewMode, nEvents, lastEvent, emitted, panOrigin>>

\* the seconds TimerWidget hands to onSetTimer: minutes * 60 of the custom
\* input, for one and two minutes
TimerDurations == {60, 120}

\* handleSetTimer(id, duration)
handleSetTimer(id, duration) ==
    /\ tasks' = mapTaskTree(tasks, id, [op |-> "setTimer", duration |-> duration])
    /\ lastEvent' = "handleSetTimer"
    /\ Commit(tasks', viewMode, CurrentView)
    /\ UNCHANGED <<settingsVars, draggedTask, clicked, rect, connections, nextId,
                   viewMode, nEvents, emitted, panOrigin>>

\* handleTimerControl(id, control)
handleTimerControl(id, control) ==
    /\ tasks' = mapTaskTree(tasks, id, [op |-> "timerControl", control |-> control])
    /\ lastEvent' = "handleTimerControl"
    /\ Commit(tasks', viewMode, CurrentView)
    /\ UNCHANGED <<settingsVars, draggedTask, clicked, rect, connections, nextId,
                   viewMode, nEvents, emitted, panOrigin>>

\* the callback of setInterval(..., 1000): setTasks(tick)
IntervalTick ==
    /\ tasks' = tick(tasks)
    /\ lastEvent' = "tick"
    /\ Commit(tasks', viewMode, CurrentView)
    /\ UNCHANGED <<settingsVars, draggedTask, clicked, rect, connections, nextId,
                   viewMode, nEvents, emitted, panOrigin>>

\* handleDragStart(e, task): task is the task the dragged list item renders
handleDragStart(id) ==
    /\ draggedTask' = findTaskInTree(tasks, id)
    /\ UNCHANGED <<settingsVars, clicked, rect, tasks, connections, nextId, viewMode,
                   viewVars, nEvents, lastEvent, emitted, panOrigin>>

handleDragEnd ==
    /\ draggedTask' = NULL
    /\ UNCHANGED <<settingsVars, clicked, rect, tasks, connections, nextId, viewMode,
                   viewVars, nEvents, lastEvent, emitted, panOrigin>>

DropPositions == {"top", "bottom", "child"}

\* handleDrop(e, targetTask, position)
handleDrop(targetId, position) ==
    /\ nEvents < MaxDrops
    /\ nEvents' = nEvents + 1
    /\ lastEvent' = "handleDrop"
    /\ emitted' = <<>>
    /\ IF draggedTask = NULL \/ draggedTask[1].id = targetId
       THEN UNCHANGED <<tasks, draggedTask, viewVars>>
       ELSE /\ LET tasksWithoutDragged == removeTask(tasks, draggedTask[1].id) IN
               tasks' = addTask(tasksWithoutDragged, targetId, draggedTask[1], position)
            /\ draggedTask' = NULL
            /\ Commit(tasks', viewMode, CurrentView)
    /\ UNCHANGED <<settingsVars, clicked, rect, connections, nextId, viewMode, panOrigin>>

\* onViewModeChange={setViewMode}
setViewMode(vm) ==
    /\ vm # viewMode
    /\ viewMode' = vm
    /\ Commit(tasks, vm, CurrentView)
    /\ UNCHANGED <<settingsVars, draggedTask, clicked, rect, tasks, connections, nextId, nEvents, lastEvent, emitted, panOrigin>>

----------------------------------------------------------------------------
(* MindmapView handlers *)

Event(name) ==
    /\ Mounted(tasks, viewMode)
    /\ nEvents < MaxEvents
    /\ nEvents' = nEvents + 1
    /\ lastEvent' = name

handleWheel(deltaY, pt) ==
    /\ Event("handleWheel")
    /\ Commit(tasks, viewMode,
              [CurrentView EXCEPT
                  !.transform = WheelTransform(transform, deltaY, pt[1], pt[2], rect)])
    /\ emitted' = <<>>
    /\ UNCHANGED <<settingsVars, draggedTask, clicked, rect, tasks, connections, nextId, viewMode, panOrigin>>

\* the Fit-to-View button
FitToViewClick ==
    /\ Event("handleFitToView")
    /\ LET l == useMindmapLayout(tasks) IN
       Commit(tasks, viewMode,
              [CurrentView EXCEPT
                  !.transform = handleFitToView(l.width, l.height, rect)])
    /\ emitted' = <<>>
    /\ UNCHANGED <<settingsVars, draggedTask, clicked, rect, tasks, connections, nextId, viewMode, panOrigin>>

\* onBackground: e.target === e.currentTarget
handleMouseDown(onBackground, pt) ==
    /\ Event("handleMouseDown")
    /\ IF ~onBackground
       THEN UNCHANGED <<viewVars, panOrigin>>
       ELSE /\ Commit(tasks, viewMode,
                      [CurrentView EXCEPT
                          !.isPanning = TRUE,
                          !.panStart = [x |-> PanStart(pt[1], transform.x),
                                        y |-> PanStart(pt[2], transform.y)]])
            /\ panOrigin' = Some([clientX |-> pt[1], clientY |-> pt[2],
                                  x |-> transform.x, y |-> transform.y])
    /\ emitted' = <<>>
    /\ UNCHANGED <<settingsVars, draggedTask, clicked, rect, tasks, connections, nextId, viewMode>>

handleMouseMove(pt) ==
    /\ Event("handleMouseMove")
    /\ IF isPanning
       THEN Commit(tasks, viewMode,
                   [CurrentView EXCEPT
                       !.transform.x = PanTranslate(pt[1], panStart.x),
                       !.transform.y = PanTranslate(pt[2], panStart.y)])
       ELSE IF drawingConnection # NULL
       THEN Commit(tasks, viewMode,
                   [CurrentView EXCEPT
                       !.drawingConnection =
                           Some([drawingConnection[1] EXCEPT
                               !.endX = ToCanvas(pt[1], rect.left, transform.x, transform.scale),
                               !.endY = ToCanvas(pt[2], rect.top, transform.y, transform.scale)])])
       ELSE UNCHANGED viewVars
    /\ emitted' = <<>>
    /\ UNCHANGED <<settingsVars, draggedTask, clicked, rect, tasks, connections, nextId, viewMode, panOrigin>>

\* handleMouseUp, bound to onMouseUp and to onMouseLeave (name tells which).
\* hit: the task id closestTask found for the event's point, or NULL
handleMouseUp(name, hit) ==
    /\ Event(name)
    /\ emitted' = MouseUpRequests(drawingConnection, hit)
    /\ connections' = ApplyRequests(connections, emitted')
    /\ Commit(tasks, viewMode,
              [CurrentView EXCEPT !.isPanning = FALSE, !.drawingConnection = NULL])
    /\ UNCHANGED <<settingsVars, draggedTask, clicked, rect, tasks, nextId, viewMode, panOrigin>>

handleStartDrawingConnection(sourceId, pt) ==
    /\ Event("handleStartDrawingConnection")
    /\ LET sourcePos == PosOf(useMindmapLayout(tasks).positions, sourceId) IN
       IF sourcePos = NULL
       THEN UNCHANGED viewVars
       ELSE Commit(tasks, viewMode,
                   [CurrentView EXCEPT
                       !.drawingConnection =
                           Some([sourceId |-> sourceId,
                                 startX |-> RInt(sourcePos[1].x + NODE_WIDTH),
                                 startY |-> RInt(sourcePos[1].y + NODE_HEIGHT \div 2),
                                 endX |-> ToCanvas(pt[1], rect.left, transform.x, transform.scale),
                                 endY |-> ToCanvas(pt[2], rect.top, transform.y, transform.scale)])])
    /\ emitted' = <<>>
    /\ UNCHANGED <<settingsVars, draggedTask, clicked, rect, tasks, connections, nextId, viewMode, panOrigin>>

\* a click on the custom connector sourceId -> targetId:
\* handlers.onDeleteConnection(sourceId, targetId)
ConnectorClick(sourceId, targetId) ==
    /\ Event("onDeleteConnection")
    /\ connections' = handleDeleteConnection(connections, sourceId, targetId)
    /\ Commit(tasks, viewMode, CurrentView)
    /\ emitted' = <<>>
    /\ clicked' = Some(<<sourceId, targetId>>)
    /\ UNCHANGED <<settingsVars, draggedTask, rect, tasks, nextId, viewMode, panOrigin>>

----------------------------------------------------------------------------
(* SettingsPanel: the GitHub token.  isSaving, message and lastSyncTime    *)
(* are display state and are left out, and so is what a save or a load     *)
(* brings back.                                                            *)

\* what the token input may hold; "ghp_a" is a token GitHub accepts,
\* "ghp_b" one it rejects
Tokens == {"", " ", "ghp_a", "ghp_b"}

\* token.trim()
Trim(t) == IF t = " " THEN "" ELSE t

\* response.ok of GET /user with that token
AcceptedByGitHub(t) == t = "ghp_a"

\* what a verifyToken(t) call may resolve to: response.ok, or false when
\* fetch throws
VerifyOutcomes(t) == {AcceptedByGitHub(t), FALSE}

\* handleTokenChange: the input's value has become t
handleTokenChange(t) ==
    /\ token' = t
    /\ isTokenValid' = NULL
    /\ UNCHANGED <<isLoading, inFlight, storedToken, verified, used>>
    /\ UNCHANGED <<rect, treeVars, viewVars, nEvents, lastEvent, emitted, panOrigin,
                   draggedTask, clicked>>

\* handleVerifyToken up to its await
handleVerifyToken ==
    /\ IF Trim(token) = ""
       THEN UNCHANGED <<isLoading, inFlight>>
       ELSE /\ isLoading' = TRUE
            /\ inFlight' = inFlight \cup {[token |-> token, from |-> "handleVerifyToken"]}
    /\ UNCHANGED <<token, isTokenValid, storedToken, verified, used>>
    /\ UNCHANGED <<rect, treeVars, viewVars, nEvents, lastEvent, emitted, panOrigin,
                   draggedTask, clicked>>

\* the promise p of a verifyToken call resolves to isValid: the rest of
\* handleVerifyToken, or the .then(setIsTokenValid) of the mount effect
VerifySettles(p, isValid) ==
    /\ inFlight' = inFlight \ {p}
    /\ verified' = IF isValid THEN verified \cup {p.token} ELSE verified
    /\ isTokenValid' = Some(isValid)
    /\ IF p.from = "handleVerifyToken"
       THEN /\ storedToken' = IF isValid THEN Some(p.token) ELSE storedToken
            /\ isLoading' = FALSE
       ELSE UNCHANGED <<storedToken, isLoading>>
    /\ UNCHANGED <<token, used>>
    /\ UNCHANGED <<rect, treeVars, viewVars, nEvents, lastEvent, emitted, panOrigin,
                   draggedTask, clicked>>

\* handleSyncToGithub up to its await: saveToGist(token, tasks, gistId)
handleSyncToGithub ==
    /\ IF isTokenValid # Some(TRUE)
       THEN UNCHANGED used
       ELSE used' = used \cup {token}
    /\ UNCHANGED <<token, isTokenValid, isLoading, inFlight, storedToken, verified>>
    /\ UNCHANGED <<rect, treeVars, viewVars, nEvents, lastEvent, emitted, panOrigin,
                   draggedTask, clicked>>

\* handleLoadFromGithub up to its await, the confirm() dialog accepted:
\* loadFromGist(token)
handleLoadFromGithub ==
    /\ IF isTokenValid # Some(TRUE)
       THEN UNCHANGED <<used, isLoading, inFlight>>
       ELSE /\ used' = used \cup {token}
            /\ isLoading' = TRUE
            /\ inFlight' = inFlight \cup {[token |-> token, from |-> "handleLoadFromGithub"]}
    /\ UNCHANGED <<token, isTokenValid, storedToken, verified>>
    /\ UNCHANGED <<rect, treeVars, viewVars, nEvents, lastEvent, emitted, panOrigin,
                   draggedTask, clicked>>

\* the promise p of loadFromGist settles: setIsLoading(false)
LoadSettles(p) ==
    /\ inFlight' = inFlight \ {p}
    /\ isLoading' = FALSE
    /\ UNCHANGED <<token, isTokenValid, storedToken, verified, used>>
    /\ UNCHANGED <<rect, treeVars, viewVars, nEvents, lastEvent, emitted, panOrigin,
                   draggedTask, clicked>>

\* handleRemoveToken, the confirm() dialog accepted
handleRemoveToken ==
    /\ storedToken' = NULL
    /\ token' = ""
    /\ isTokenValid' = NULL
    /\ UNCHANGED <<isLoading, inFlight, verified, used>>
    /\ UNCHANGED <<rect, treeVars, viewVars, nEvents, lastEvent, emitted, panOrigin,
                   draggedTask, clicked>>

\* the tokens localStorage may hold when the panel is mounted
StoredTokens == {NULL, Some("ghp_a"), Some("ghp_b")}

\* a SettingsPanel that has been mounted and has run its effect: a saved
\* token is put into the input and its verification is under way
InitSettings ==
    /\ storedToken \in StoredTokens
    /\ token = IF storedToken = NULL THEN "" ELSE storedToken[1]
    /\ inFlight = IF storedToken = NULL THEN {}
                  ELSE {[token |-> storedToken[1], from |-> "useEffect"]}
    /\ isTokenValid = NULL
    /\ isLoading = FALSE
    /\ verified = {}
    /\ used = {}
    /\ rect \in ContainerRects
    /\ tasks = sampleData
    /\ connections = sampleConnections
    /\ nextId = FirstNewId
    /\ viewMode = "mindmap"
    /\ LET w == Render(sampleData, "mindmap", FreshView, rect) IN
       /\ transform = w.transform
       /\ isPanning = w.isPanning
       /\ panStart = w.panStart
       /\ drawingConnection = w.drawingConnection
       /\ didInitialFit = w.didInitialFit
    /\ nEvents = 0
    /\ lastEvent = "mount"
    /\ emitted = <<>>
    /\ panOrigin = NULL
    /\ draggedTask = NULL
    /\ clicked = NULL

----------------------------------------------------------------------------
(* Specifications *)

AddTask == handleAddTask
AddSubtask == \E parentId \in VisibleIds(tasks) : handleAddSubtask(parentId)
ToggleCollapse ==
    \E id \in VisibleIds(tasks) :
        /\ CanToggle(findTaskInTree(tasks, id)[1])
        /\ handleToggleCollapse(id)
Delete == \E id \in VisibleIds(tasks) : handleDelete(id)
ExpandAll == handleExpandAll
CollapseAll == handleCollapseAll
SetViewMode == \E vm \in ViewModes : setViewMode(vm)
ToggleComplete == \E id \in VisibleIds(tasks) : handleToggleComplete(id)
ClearCompleted == handleClearCompleted
\* the tasks that have a timer
TimedIds(ts) == { id \in AllIds(ts) : findTaskInTree(ts, id)[1].timerDuration # NULL }

\* TimerWidget of a rendered task without a timer: the Set Custom button
SetTimer ==
    \E id \in VisibleIds(tasks), duration \in TimerDurations :
        /\ findTaskInTree(tasks, id)[1].timerDuration = NULL
        /\ Cardinality(TimedIds(tasks)) < MaxTimers
        /\ handleSetTimer(id, duration)
\* TimerWidget of a rendered task with a timer: pause while it is running and
\* start otherwise; extend when it is finished and reset otherwise
TimerButton ==
    \E id \in VisibleIds(tasks), control \in {"start", "pause", "reset", "extend"} :
        LET task == findTaskInTree(tasks, id)[1] IN
        /\ task.timerDuration # NULL
        /\ control \in {"start", "pause"} =>
              (control = "pause" <=> task.timerState = Some("Running"))
        /\ control \in {"reset", "extend"} =>
              (control = "extend" <=> task.timerState = Some("Finished"))
        /\ handleTimerControl(id, control)
Tick == IntervalTick
\* typing into the token input
TokenChange == \E t \in Tokens \ {token} : handleTokenChange(t)
\* the Verify button, disabled while isLoading
VerifyClick == ~isLoading /\ handleVerifyToken
VerifyResolves ==
    \E p \in inFlight : \E isValid \in VerifyOutcomes(p.token) :
        /\ p.from \in {"handleVerifyToken", "useEffect"}
        /\ VerifySettles(p, isValid)
\* the sync actions are rendered when isTokenValid is true
SaveClick == isTokenValid = Some(TRUE) /\ handleSyncToGithub
\* the Load button, disabled while isLoading
LoadClick == isTokenValid = Some(TRUE) /\ ~isLoading /\ handleLoadFromGithub
LoadResolves ==
    \E p \in inFlight : p.from = "handleLoadFromGithub" /\ LoadSettles(p)
RemoveToken == isTokenValid = Some(TRUE) /\ handleRemoveToken
\* the list items are draggable and accept drops; a mindmap node does neither
DragStart ==
    /\ viewMode = "list"
    /\ draggedTask = NULL
    /\ \E id \in VisibleIds(tasks) : handleDragStart(id)
DragEnd ==
    /\ draggedTask # NULL
    /\ handleDragEnd
Drop ==
    /\ viewMode = "list"
    /\ draggedTask # NULL
    /\ \E targetId \in VisibleIds(tasks), position \in DropPositions :
          handleDrop(targetId, position)
Wheel == \E deltaY \in WheelDeltas, pt \in PointerPositions : handleWheel(deltaY, pt)
FitToView == FitToViewClick
MouseDown == \E b \in BOOLEAN, pt \in PointerPositions : handleMouseDown(b, pt)
MouseMove == \E pt \in PointerPositions : handleMouseMove(pt)
\* the task node under the pointer, if any
NodesUnderPointer == {NULL} \cup { Some(id) : id \in VisibleIds(tasks) }
MouseUp ==
    \E over \in NodesUnderPointer : handleMouseUp("handleMouseUp", closestTask(TRUE, over))
\* the pointer has left the container; over: the node whose unclipped box it
\* is in
MouseLeave ==
    \E over \in NodesUnderPointer : handleMouseUp("onMouseLeave", closestTask(FALSE, over))
StartDrawingConnection ==
    \E id \in VisibleIds(tasks), pt \in PointerPositions :
        handleStartDrawingConnection(id, pt)
\* a click on one of the custom connectors that are rendered
DeleteConnection ==
    LET l == useMindmapLayout(tasks)
        c == customConnectors(l.positions, connections, l.height)
    IN  \E i \in 1..Len(c) : ConnectorClick(c[i].sourceId, c[i].targetId)

\* handleFitToView called on a MindmapView whatever tasks it was given
FitToViewCall ==
    /\ nEvents < MaxEvents
    /\ nEvents' = nEvents + 1
    /\ lastEvent' = "handleFitToView"
    /\ LET l == useMindmapLayout(tasks) IN
       transform' = handleFitToView(l.width, l.height, rect)
    /\ emitted' = <<>>
    /\ UNCHANGED <<settingsVars, draggedTask, clicked, rect, tasks, connections, nextId, viewMode, isPanning, panStart,
                   drawingConnection, didInitialFit, panOrigin>>

\* the task tree and the layout derived from it
NextTree ==
    \/ AddTask
    \/ AddSubtask
    \/ ToggleCollapse
    \/ Delete
    \/ ExpandAll
    \/ CollapseAll

\* the viewport and the interaction state of MindmapView
NextView ==
    \/ Wheel
    \/ FitToView
    \/ MouseDown
    \/ MouseMove
    \/ MouseUp
    \/ MouseLeave
    \/ StartDrawingConnection
    \/ ExpandAll
    \/ CollapseAll

\* handleFitToView as a function of the tasks and the container: a
\* MindmapView given any of FitTrees (the empty tree among them) in any of
\* FitRects; pans move the translate away between the calls
NextFit ==
    \/ FitToViewCall
    \/ MouseDown
    \/ MouseMove

\* mounting and unmounting MindmapView (view-mode changes, emptying and
\* refilling the tree) around pans
NextMount ==
    \/ AddTask
    \/ Delete
    \/ SetViewMode
    \/ MouseDown
    \/ MouseMove

\* the connections overlay: drawing and deleting connections while nodes
\* are expanded and collapsed and the completed ones cleared
NextConn ==
    \/ StartDrawingConnection
    \/ MouseUp
    \/ DeleteConnection
    \/ ExpandAll
    \/ CollapseAll
    \/ ClearCompleted

\* moving tasks by drag and drop in the list view between edits of the
\* tree; while an item is dragged no other control can be used
NextDrag ==
    \/ SetViewMode
    \/ DragStart
    \/ Drop
    \/ DragEnd
    \/ (draggedTask = NULL /\ AddTask)
    \/ (draggedTask = NULL /\ AddSubtask)
    \/ (draggedTask = NULL /\ Delete)
    \/ (draggedTask = NULL /\ ClearCompleted)
    \/ (draggedTask = NULL /\ ExpandAll)
    \/ (draggedTask = NULL /\ CollapseAll)

\* deleting tasks that connections were drawn between
NextDelete ==
    \/ StartDrawingConnection
    \/ MouseUp
    \/ ExpandAll
    \/ Delete

\* the timers of the tasks and the one-second interval
NextTimer ==
    \/ SetTimer
    \/ TimerButton
    \/ Tick

\* the token of the settings panel and the calls to GitHub that use it
NextSettings ==
    \/ TokenChange
    \/ VerifyClick
    \/ VerifyResolves
    \/ SaveClick
    \/ LoadClick
    \/ LoadResolves
    \/ RemoveToken

Next ==
    \/ NextTree \/ NextView \/ NextConn \/ ToggleComplete \/ SetViewMode
    \/ NextDrag \/ NextTimer \/ NextSettings

Spec == Init /\ [][Next]_vars
SpecTree == Init /\ [][NextTree]_vars
SpecView == Init /\ [][NextView]_vars
SpecFit == InitFit /\ [][NextFit]_vars
SpecMount == Init /\ [][NextMount]_vars
SpecConn == Init /\ [][NextConn]_vars
SpecDrag == Init /\ [][NextDrag]_vars
SpecDelete == Init /\ [][NextDelete]_vars
SpecSettings == InitSettings /\ [][NextSettings]_vars
SpecTimer == Init /\ [][NextTimer]_vars
\* the interval keeps firing: setInterval is never cleared while App is mounted
SpecTimerLive == Init /\ [][NextTimer]_vars /\ WF_vars(Tick)

----------------------------------------------------------------------------
(* Vocabulary of the properties: nodes by their path of child indices      *)

RECURSIVE PathsOf(_)
PathsOf(ts) ==
    UNION { {<<i>>} \cup { <<i>> \o q : q \in PathsOf(ts[i].children) }
            : i \in 1..Len(ts) }

RECURSIVE NodeAt(_, _)
NodeAt(ts, p) ==
    IF Len(p) = 1 THEN ts[p[1]] ELSE NodeAt(ts[p[1]].children, Tail(p))

Parent(p) == SubSeq(p, 1, Len(p) - 1)

\* all ancestors of the node at p are expanded
IsVisible(ts, p) ==
    \A k \in 1..(Len(p) - 1) : ~NodeAt(ts, SubSeq(p, 1, k)).collapsed

VisiblePaths(ts) == { p \in PathsOf(ts) : IsVisible(ts, p) }

\* the siblings of the node at p, itself included
Siblings(ts, p) == IF Len(p) = 1 THEN ts ELSE NodeAt(ts, Parent(p)).children

\* q is a proper prefix of p
IsAncestor(q, p) == Len(q) < Len(p) /\ SubSeq(p, 1, Len(q)) = q

RECURSIVE SeqSum(_)
SeqSum(s) == IF s = <<>> THEN 0 ELSE Head(s) + SeqSum(Tail(s))

\* the value calculateSubtreeHeight(task) returns when called on a fresh map
HeightOf(task) == calculateSubtreeHeight(task, EmptyMap)[task.id]

\* the number of nodes of the subtree that are drawn without children
RECURSIVE Terminals(_)
Terminals(task) ==
    IF task.collapsed \/ task.children = <<>> THEN 1
    ELSE SeqSum([i \in 1..Len(task.children) |-> Terminals(task.children[i])])

\* the vertical extent of a subtree drawn with n terminal nodes
BandHeight(task) == 80 * Terminals(task) + 60 * (Terminals(task) - 1)

\* the start of the band of the node at p: bands are stacked from 0 (roots,
\* gap 120) or from the parent's band start (children, gap 60)
RECURSIVE BandStart(_, _)
BandStart(ts, p) ==
    LET sibs == Siblings(ts, p)
        i == p[Len(p)]
        gap == IF Len(p) = 1 THEN 120 ELSE 60
        base == IF Len(p) = 1 THEN 0 ELSE BandStart(ts, Parent(p))
    IN  base + SeqSum([j \in 1..(i - 1) |-> BandHeight(sibs[j]) + gap])

\* the NodePosition of the visible node at path p in the position list ps
PosAt(ps, ts, p) == PosOf(ps, NodeAt(ts, p).id)[1]

----------------------------------------------------------------------------
(* C1: any two distinct visible nodes placed at the same depth have y       *)
(* coordinates at least NODE_HEIGHT (80) apart, so their boxes [y, y + 80] *)
(* do not overlap within a depth column.                                   *)
NoOverlapInColumn ==
    LET ps == useMindmapLayout(tasks).positions IN
    \A i, j \in 1..Len(ps) :
        (i # j /\ ps[i].depth = ps[j].depth) => Abs(ps[i].y - ps[j].y) >= 80

\* four visible nodes of two different parents share the column of depth 1,
\* one of them collapsed over children of its own
WitnessNoOverlap ==
    /\ Cardinality({ p \in VisiblePaths(tasks) : Len(p) = 2 }) >= 4
    /\ \E p \in VisiblePaths(tasks) :
           /\ Len(p) = 2
           /\ NodeAt(tasks, p).collapsed
           /\ NodeAt(tasks, p).children # <<>>
    /\ \E p, q \in VisiblePaths(tasks) : Len(p) = 2 /\ Len(q) = 2 /\ p[1] # q[1]

(* C2: calculateSubtreeHeight returns NODE_HEIGHT (80) for every node that  *)
(* is collapsed or has no children, and for every expanded node with        *)
(* k >= 1 children exactly the sum of the children's heights plus           *)
(* (k - 1) * 60; the map of one layout pass holds these values.            *)
HeightAdditivity ==
    /\ \A p \in PathsOf(tasks) :
          LET t == NodeAt(tasks, p)
              k == Len(t.children)
          IN  IF t.collapsed \/ k = 0
              THEN HeightOf(t) = 80
              ELSE HeightOf(t) =
                     SeqSum([i \in 1..k |-> HeightOf(t.children[i])]) + (k - 1) * 60
    /\ LET m == subtreeHeights(tasks) IN
       \A p \in VisiblePaths(tasks) :
          m[NodeAt(tasks, p).id] = HeightOf(NodeAt(tasks, p))

\* an expanded node with three children, one of them expanded over a child
\* and one collapsed over a child
WitnessHeightAdditivity ==
    \E p \in PathsOf(tasks) :
        LET t == NodeAt(tasks, p) IN
        /\ ~t.collapsed
        /\ Len(t.children) >= 3
        /\ \E i \in 1..Len(t.children) : t.children[i].collapsed

(* C4: every visible node is vertically centred in the band of its own      *)
(* subtree: y = bandStart + subtreeHeight / 2 - NODE_HEIGHT / 2; for a      *)
(* first root A with two leaf children B and C, A.y = (2 * 80 + 60) / 2 -  *)
(* 40 = 70, B.y = 0 and C.y = 80 + 60 = 140.                               *)
CentredInBand ==
    LET ps == useMindmapLayout(tasks).positions IN
    /\ \A p \in VisiblePaths(tasks) :
          2 * PosAt(ps, tasks, p).y
              = 2 * BandStart(tasks, p) + BandHeight(NodeAt(tasks, p)) - 80
    /\ (/\ tasks # <<>>
        /\ ~tasks[1].collapsed
        /\ Len(tasks[1].children) = 2
        /\ tasks[1].children[1].children = <<>>
        /\ tasks[1].children[2].children = <<>>)
          => /\ PosAt(ps, tasks, <<1>>).y = 70
             /\ PosAt(ps, tasks, <<1, 1>>).y = 0
             /\ PosAt(ps, tasks, <<1, 2>>).y = 140

\* a visible node at depth 2 whose band does not start at 0 and whose parent
\* has several children, below a first root with two leaf children
WitnessCentredInBand ==
    /\ tasks # <<>> /\ ~tasks[1].collapsed /\ Len(tasks[1].children) = 2
    /\ tasks[1].children[1].children = <<>>
    /\ tasks[1].children[2].children = <<>>
    /\ \E p \in VisiblePaths(tasks) :
          /\ Len(p) = 2
          /\ BandStart(tasks, p) > 0
          /\ BandHeight(NodeAt(tasks, Parent(p))) > 80

(* C5: sibling bands are stacked top to bottom in array order: the first    *)
(* child's band starts at its parent's band start, each next sibling's     *)
(* band starts at the previous sibling's band start + the previous         *)
(* sibling's subtree height + 60; top-level tasks are stacked the same way *)
(* from 0 with a gap of 120.  (The band start of a node is recovered from  *)
(* its position: y - subtreeHeight / 2 + 40.)                              *)
BandOfPos(ps, ts, p) ==
    PosAt(ps, ts, p).y - (HeightOf(NodeAt(ts, p)) \div 2) + 40

SiblingBandsStacked ==
    LET ps == useMindmapLayout(tasks).positions IN
    \A p \in VisiblePaths(tasks) :
        LET i == p[Len(p)]
            prev == [p EXCEPT ![Len(p)] = i - 1]
        IN  IF i = 1
            THEN BandOfPos(ps, tasks, p) =
                    (IF Len(p) = 1 THEN 0 ELSE BandOfPos(ps, tasks, Parent(p)))
            ELSE BandOfPos(ps, tasks, p) =
                    BandOfPos(ps, tasks, prev) + HeightOf(NodeAt(tasks, prev))
                        + (IF Len(p) = 1 THEN 120 ELSE 60)

\* three top-level tasks, the second one expanded over at least two children
WitnessSiblingBandsStacked ==
    /\ Len(tasks) >= 3
    /\ ~tasks[2].collapsed
    /\ Len(tasks[2].children) >= 2

(* C6: the position list holds exactly the visible nodes (those whose       *)
(* ancestors are all expanded), each exactly once: a collapsed node is     *)
(* itself present and none of its descendants is.                          *)
PositionsAreVisibleNodes ==
    LET Positions == useMindmapLayout(tasks).positions IN
    /\ { Positions[i].task.id : i \in 1..Len(Positions) } = VisibleIds(tasks)
    /\ { Positions[i].task.id : i \in 1..Len(Positions) }
          = { NodeAt(tasks, p).id : p \in VisiblePaths(tasks) }
    /\ \A i, j \in 1..Len(Positions) :
          Positions[i].task.id = Positions[j].task.id => i = j
    /\ \A p \in PathsOf(tasks) :
          NodeAt(tasks, p).collapsed /\ IsVisible(tasks, p)
            => /\ PosOf(Positions, NodeAt(tasks, p).id) # NULL
               /\ \A q \in PathsOf(tasks) :
                     IsAncestor(p, q) => PosOf(Positions, NodeAt(tasks, q).id) = NULL

\* a visible collapsed node hides a child that itself has a child, next to an
\* expanded node that shows its children
WitnessPositionsAreVisibleNodes ==
    /\ \E p \in VisiblePaths(tasks), q \in PathsOf(tasks) :
          /\ NodeAt(tasks, p).collapsed
          /\ IsAncestor(p, q)
          /\ Len(q) = Len(p) + 2
    /\ \E p \in VisiblePaths(tasks) : Len(p) = 2

(* C7: every NodePosition has depth = the number of ancestors of its node   *)
(* and x = depth * (NODE_WIDTH + H_SPACING) = depth * 376: the visible     *)
(* nodes of one depth share a column and the roots have x = 0.             *)
DepthAndColumn ==
    LET ps == useMindmapLayout(tasks).positions IN
    \A p \in VisiblePaths(tasks) :
        /\ PosAt(ps, tasks, p).depth = Len(p) - 1
        /\ PosAt(ps, tasks, p).x = (Len(p) - 1) * 376

\* visible nodes at depths 0, 1 and 2, two of them in the column of depth 1
\* under different roots
WitnessDepthAndColumn ==
    /\ \E p \in VisiblePaths(tasks) : Len(p) = 3
    /\ \E p, q \in VisiblePaths(tasks) : Len(p) = 2 /\ Len(q) = 2 /\ p[1] # q[1]

(* C8: the canvas size is width = max over the positions of x + NODE_WIDTH  *)
(* and height = max over the positions of y + NODE_HEIGHT (0 for no        *)
(* position), so every visible node's box lies in [0, width] x [0, height].*)
SetMax(S) == IF S = {} THEN 0 ELSE CHOOSE m \in S : \A n \in S : n <= m

CanvasIsBoundingBox ==
    LET Layout == useMindmapLayout(tasks)
        Positions == Layout.positions
    IN
    /\ Layout.width = SetMax({ Positions[i].x + 256 : i \in 1..Len(Positions) })
    /\ Layout.height = SetMax({ Positions[i].y + 80 : i \in 1..Len(Positions) })
    /\ \A i \in 1..Len(Positions) :
          /\ 0 <= Positions[i].x /\ Positions[i].x + 256 <= Layout.width
          /\ 0 <= Positions[i].y /\ Positions[i].y + 80 <= Layout.height

\* several columns are in use, the node laid out last is not in the widest
\* column, and the first node reaches neither maximum
WitnessCanvasIsBoundingBox ==
    LET Layout == useMindmapLayout(tasks)
        Positions == Layout.positions
    IN
    /\ Len(Positions) >= 4
    /\ Positions[Len(Positions)].x + 256 < Layout.width
    /\ Positions[1].x + 256 < Layout.width
    /\ Positions[1].y + 80 < Layout.height
    /\ Layout.width = 632
    /\ Layout.height > 80

(* C3 (as amended): collapsing one expanded visible node, only its          *)
(* collapsed flag changing, removes exactly its descendants from the       *)
(* position list, changes no remaining node's x, and leaves the y of every *)
(* node placed before it that is not one of its ancestors (its earlier     *)
(* siblings with their subtrees among them) as it was; the collapsed node, *)
(* its ancestors and the nodes placed after it may move, and only upwards. *)
RECURSIVE WithCollapsed(_, _)
WithCollapsed(ts, p) ==
    [i \in 1..Len(ts) |->
        IF i # p[1] THEN ts[i]
        ELSE IF Len(p) = 1 THEN [ts[i] EXCEPT !.collapsed = TRUE]
        ELSE [ts[i] EXCEPT !.children = WithCollapsed(ts[i].children, Tail(p))]]

\* this step collapses the expanded visible node at p and changes nothing else
\* of the tree
IsCollapseOf(p) ==
    /\ ~NodeAt(tasks, p).collapsed
    /\ tasks' = WithCollapsed(tasks, p)

IdsOf(ps) == { ps[i].task.id : i \in 1..Len(ps) }

DescendantIds(ts, p) ==
    { NodeAt(ts, q).id : q \in { q \in PathsOf(ts) : IsAncestor(p, q) } }

\* q comes before p in traversal order and is not an ancestor of p
PlacedBefore(q, p) ==
    \E k \in 1..Len(q) :
        /\ k <= Len(p)
        /\ SubSeq(q, 1, k - 1) = SubSeq(p, 1, k - 1)
        /\ q[k] < p[k]

\* q is a later sibling of p or lies in the subtree of one
InLaterSiblingStack(q, p) ==
    /\ Len(q) >= Len(p)
    /\ SubSeq(q, 1, Len(p) - 1) = Parent(p)
    /\ q[Len(p)] > p[Len(p)]

CollapseFrame ==
    [][\A p \in VisiblePaths(tasks) :
          IsCollapseOf(p) =>
            \A before \in {useMindmapLayout(tasks).positions},
               after \in {useMindmapLayout(tasks').positions} :
                /\ IdsOf(after) = IdsOf(before) \ DescendantIds(tasks, p)
                /\ Len(after) = Cardinality(IdsOf(after))
                /\ \A q \in VisiblePaths(tasks) :
                      ~IsAncestor(p, q) =>
                        LET a == PosAt(before, tasks, q)
                            b == PosOf(after, NodeAt(tasks, q).id)[1]
                        IN  /\ b.x = a.x
                            /\ b.y <= a.y
                            /\ PlacedBefore(q, p) => b.y = a.y
      ]_vars

\* a top-level task that got a child from handleAddTask (which expands it) is
\* collapsed again over its three children; the top-level task before it
\* shows its own children
WitnessCollapseFrame ==
    \E i \in 2..Len(tasks) :
        /\ tasks[i].collapsed
        /\ Len(tasks[i].children) >= 3
        /\ \E j \in 1..Len(tasks[i].children) : tasks[i].children[j].id >= FirstNewId
        /\ ~tasks[1].collapsed
        /\ Len(tasks[1].children) >= 2

(* C3 (as claimed): the collapse removes the descendants and changes the    *)
(* x/y only of nodes placed after the collapsed node in its sibling stack: *)
(* its ancestors, its earlier siblings with their subtrees and every other *)
(* remaining node keep their positions.                                    *)
CollapseMovesOnlyLaterSiblings ==
    [][\A p \in VisiblePaths(tasks) :
          IsCollapseOf(p) =>
            \A before \in {useMindmapLayout(tasks).positions},
               after \in {useMindmapLayout(tasks').positions} :
                /\ IdsOf(after) = IdsOf(before) \ DescendantIds(tasks, p)
                /\ \A q \in VisiblePaths(tasks) :
                      (~IsAncestor(p, q) /\ ~InLaterSiblingStack(q, p)) =>
                        LET a == PosAt(before, tasks, q)
                            b == PosOf(after, NodeAt(tasks, q).id)[1]
                        IN  b.x = a.x /\ b.y = a.y
      ]_vars

----------------------------------------------------------------------------
(* C9: in every reachable viewport state transform.scale lies in           *)
(* [0.2, 2.0].                                                             *)
ScaleInRange ==
    /\ RLe(Rat(2, 10), transform.scale)
    /\ RLe(transform.scale, RInt(2))

(* C10: handleWheel keeps the canvas point under the cursor fixed: with     *)
(* (cx, cy) the cursor position in the container, (cx - x) / scale and     *)
(* (cy - y) / scale are the same before and after, and the new scale is    *)
(* scale - deltaY * 0.001 clamped to [0.2, 2].                             *)
CanvasPoint(c, t, scale) == RDiv(RSub(c, t), scale)

ZoomKeepsCursorPoint ==
    [][\A deltaY \in WheelDeltas, pt \in PointerPositions :
          handleWheel(deltaY, pt) =>
            LET cx == RInt(pt[1] - rect.left)
                cy == RInt(pt[2] - rect.top)
                wanted == RSub(transform.scale, Rat(deltaY, 1000))
            IN  /\ CanvasPoint(cx, transform'.x, transform'.scale)
                      = CanvasPoint(cx, transform.x, transform.scale)
                /\ CanvasPoint(cy, transform'.y, transform'.scale)
                      = CanvasPoint(cy, transform.y, transform.scale)
                /\ transform'.scale =
                      (IF RLt(wanted, Rat(1, 5)) THEN Rat(1, 5)
                       ELSE IF RLt(RInt(2), wanted) THEN RInt(2)
                       ELSE wanted)
      ]_vars

\* a wheel event, the third event or later, has left the scale strictly
\* inside the range, below every scale Fit-to-View produces, and the
\* translate at a fraction of a pixel
WitnessZoomKeepsCursorPoint ==
    /\ lastEvent = "handleWheel"
    /\ nEvents >= 3
    /\ RLt(Rat(1, 5), transform.scale) /\ RLt(transform.scale, RInt(1))
    /\ transform.x[2] # 1

----------------------------------------------------------------------------
(* C11: after handleFitToView on a canvas of non-zero width and height the  *)
(* centre of the scaled canvas box is the centre of the viewport in both   *)
(* axes, and the scale is 0.9 * min(viewW / canvasW, viewH / canvasH): both *)
(* scaled dimensions are within 0.9 of the viewport's and one reaches it.  *)
FitCentresContent ==
    LET l == useMindmapLayout(tasks)
        canvasW == RInt(l.width)
        canvasH == RInt(l.height)
        viewW == RInt(rect.width)
        viewH == RInt(rect.height)
        scaledW == RMul(canvasW, transform.scale)
        scaledH == RMul(canvasH, transform.scale)
        limitW == RMul(Rat(9, 10), viewW)
        limitH == RMul(Rat(9, 10), viewH)
    IN  (lastEvent = "handleFitToView" /\ l.width # 0 /\ l.height # 0) =>
          /\ RAdd(transform.x, RDiv(scaledW, RInt(2))) = RDiv(viewW, RInt(2))
          /\ RAdd(transform.y, RDiv(scaledH, RInt(2))) = RDiv(viewH, RInt(2))
          /\ RLe(scaledW, limitW)
          /\ RLe(scaledH, limitH)
          /\ scaledW = limitW \/ scaledH = limitH
          /\ transform.scale =
                RMul(Rat(9, 10), RMin(RDiv(viewW, canvasW), RDiv(viewH, canvasH)))

\* a fit that followed a pan, on a canvas whose width limits the scale
WitnessFitCentresContent ==
    LET l == useMindmapLayout(tasks) IN
    /\ lastEvent = "handleFitToView"
    /\ panOrigin # NULL
    /\ l.width > 256
    /\ RMul(RInt(l.width), transform.scale) = RMul(Rat(9, 10), RInt(rect.width))
    /\ RLt(RMul(RInt(l.height), transform.scale), RMul(Rat(9, 10), RInt(rect.height)))

(* C12: handleFitToView on a canvas whose width or height is zero sets the  *)
(* transform to exactly {x: 50, y: 50, scale: 1}; no transform it sets is  *)
(* the outcome of a division by zero (every component is a finite number). *)
DegenerateFitResets ==
    LET l == useMindmapLayout(tasks) IN
    /\ (lastEvent = "handleFitToView" /\ (l.width = 0 \/ l.height = 0)) =>
          transform = [x |-> RInt(50), y |-> RInt(50), scale |-> RInt(1)]
    /\ transform.x[2] > 0 /\ transform.y[2] > 0 /\ transform.scale[2] > 0

\* the first event was the call on the empty canvas (reached from the initial
\* state with the default transform and from the panned and zoomed one)
WitnessDegenerateFitResets ==
    /\ lastEvent = "handleFitToView"
    /\ nEvents = 1
    /\ useMindmapLayout(tasks).width = 0
    /\ transform = [x |-> RInt(50), y |-> RInt(50), scale |-> RInt(1)]

(* C13: the auto-fit ran on the first layout (the initial state); no tree   *)
(* or view-mode change (add, delete, collapse, expand, emptying and        *)
(* refilling the tree, switching the view mode) runs it again, and every   *)
(* such change with the mindmap shown before and after keeps the transform.*)
AutoFitRunsOnce ==
    [][(AddTask \/ Delete \/ SetViewMode) =>
          /\ ~(~didInitialFit /\ didInitialFit')
          /\ (Mounted(tasks, viewMode) /\ Mounted(tasks', viewMode'))
                => transform' = transform
      ]_vars

(* C14: a pointer-move changes the translate only while panning is active; *)
(* panning becomes active with a pointer-down on the background and stays  *)
(* active until the next pointer-up or pointer-leave; each move while      *)
(* panning sets translate = translate at that pointer-down + (pointer      *)
(* position - position of that pointer-down) and leaves the scale; the     *)
(* pointer-up or pointer-leave that ends the pan keeps the transform.      *)
PanFollowsPointer ==
    [][/\ \A pt \in PointerPositions :
             handleMouseMove(pt) =>
               IF isPanning
               THEN /\ panOrigin # NULL
                    /\ transform'.x =
                          RAdd(panOrigin[1].x, RInt(pt[1] - panOrigin[1].clientX))
                    /\ transform'.y =
                          RAdd(panOrigin[1].y, RInt(pt[2] - panOrigin[1].clientY))
                    /\ transform'.scale = transform.scale
                    /\ isPanning'
               ELSE transform' = transform /\ ~isPanning'
       /\ \A b \in BOOLEAN, pt \in PointerPositions :
             handleMouseDown(b, pt) =>
               /\ isPanning' = (b \/ isPanning)
               /\ transform' = transform
       /\ (MouseUp \/ MouseLeave) => (~isPanning' /\ transform' = transform)
       /\ (Wheel \/ FitToView \/ StartDrawingConnection \/ ExpandAll \/ CollapseAll)
             => isPanning' = isPanning
      ]_vars

\* a move during a pan has taken the translate away from where the
\* pointer-down found it
WitnessPanFollowsPointer ==
    /\ lastEvent = "handleMouseMove"
    /\ isPanning
    /\ panOrigin # NULL
    /\ transform.x # panOrigin[1].x
    /\ transform.y # panOrigin[1].y

(* C15: in every reachable interaction state at most one of Panning and    *)
(* DrawingConnection is active: isPanning and drawingConnection # null     *)
(* never hold together.                                                    *)
OneGestureAtATime == ~(isPanning /\ drawingConnection # NULL)

(* C16: a pointer-up that ends a DrawingConnection gesture calls           *)
(* onAddConnection(sourceId, hitId) exactly once if the release point hits *)
(* a node whose id differs from sourceId and not at all if nothing is hit  *)
(* or the node hit is the source; in every case the draft connection is    *)
(* cleared and no gesture is active afterwards.                            *)
ReleaseRequestsConnection ==
    [][\A over \in NodesUnderPointer :
          (drawingConnection # NULL /\ handleMouseUp("handleMouseUp", over)) =>
             /\ emitted' =
                   IF over # NULL /\ over[1] # drawingConnection[1].sourceId
                   THEN << <<drawingConnection[1].sourceId, over[1]>> >>
                   ELSE <<>>
             /\ \A i \in 1..Len(emitted') : emitted'[i][1] # emitted'[i][2]
             /\ drawingConnection' = NULL
             /\ ~isPanning'
      ]_vars

\* a gesture started on one node was released over another one: one request
WitnessReleaseRequestsConnection ==
    /\ lastEvent = "handleMouseUp"
    /\ Len(emitted) = 1
    /\ emitted[1][1] # emitted[1][2]
    /\ drawingConnection = NULL
    /\ emitted[1][1] \in DOMAIN connections
    /\ \E i \in 1..Len(connections[emitted[1][1]]) :
          connections[emitted[1][1]][i] = emitted[1][2]

ParentChildPairs(ts) ==
    { pr \in PathsOf(ts) \X PathsOf(ts) :
        /\ IsVisible(ts, pr[1])
        /\ ~NodeAt(ts, pr[1]).collapsed
        /\ Len(pr[2]) = Len(pr[1]) + 1
        /\ Parent(pr[2]) = pr[1] }

\* connector c runs from the right-edge midpoint of a to the left-edge
\* midpoint of b
RunsBetween(c, a, b) ==
    /\ c.d[1] = RInt(a.x + 256) /\ c.d[2] = RInt(a.y + 40)
    /\ c.d[7] = RInt(b.x) /\ c.d[8] = RInt(b.y + 40)

HierarchicalConnectorsMatchTree ==
    LET ps == useMindmapLayout(tasks).positions
        h == hierarchicalConnectors(ps)
        pairs == ParentChildPairs(tasks)
    IN  /\ Len(h) = Cardinality(pairs)
        /\ \A pr \in pairs :
              Cardinality({ i \in 1..Len(h) :
                  RunsBetween(h[i], PosAt(ps, tasks, pr[1]), PosAt(ps, tasks, pr[2])) }) = 1
        /\ \A i \in 1..Len(h) :
              \E pr \in pairs :
                  RunsBetween(h[i], PosAt(ps, tasks, pr[1]), PosAt(ps, tasks, pr[2]))

\* three connectors or more are drawn while a visible collapsed node keeps
\* its children hidden
WitnessHierarchicalConnectorsMatchTree ==
    LET ps == useMindmapLayout(tasks).positions IN
    /\ Len(hierarchicalConnectors(ps)) >= 3
    /\ \E i \in 1..Len(ps) :
          ps[i].task.collapsed /\ Len(ps[i].task.children) >= 2

(* C19: a custom connection (s -> t) of the overlay yields exactly one     *)
(* custom connector, from the right-edge midpoint of s to the left-edge    *)
(* midpoint of t, when both s and t have a position in the current layout, *)
(* and none when either is hidden by a collapsed ancestor or no longer     *)
(* exists; every connector comes from a connection of the overlay, the     *)
(* edges of a cycle each yielding their own.                               *)
Edges(conns) ==
    UNION { { <<s, conns[s][k]>> : k \in 1..Len(conns[s]) } : s \in DOMAIN conns }

\* the position of the visible node with that id, found by walking the tree
PosOfVisible(ps, ts, id) ==
    PosAt(ps, ts, CHOOSE p \in VisiblePaths(ts) : NodeAt(ts, p).id = id)

CustomConnectorsMatchOverlay ==
    LET l == useMindmapLayout(tasks)
        ps == l.positions
        c == customConnectors(ps, connections, l.height)
        shown == { NodeAt(tasks, p).id : p \in VisiblePaths(tasks) }
        For(e) == { i \in 1..Len(c) : c[i].sourceId = e[1] /\ c[i].targetId = e[2] }
    IN  /\ \A e \in Edges(connections) :
              IF e[1] \in shown /\ e[2] \in shown
              THEN /\ Cardinality(For(e)) = 1
                   /\ \A i \in For(e) :
                         RunsBetween(c[i], PosOfVisible(ps, tasks, e[1]),
                                     PosOfVisible(ps, tasks, e[2]))
              ELSE For(e) = {}
        /\ \A i \in 1..Len(c) : <<c[i].sourceId, c[i].targetId>> \in Edges(connections)

\* the overlay holds a drawn connection whose target was cleared from the
\* tree, next to a connection between two visible nodes
WitnessCustomConnectorsMatchOverlay ==
    LET l == useMindmapLayout(tasks) IN
    /\ \E e \in Edges(connections) : e[2] \notin AllIds(tasks)
    /\ Len(customConnectors(l.positions, connections, l.height)) >= 1

(* C20: the connections overlay is a set of edges: a request to add an     *)
(* edge that already exists leaves the overlay unchanged, and after every  *)
(* add and delete request no source's target list holds a target twice.    *)
NoTargetTwice(conns) ==
    \A s \in DOMAIN conns :
        \A j, k \in 1..Len(conns[s]) : conns[s][j] = conns[s][k] => j = k

ConnectionsAreASet ==
    [][/\ NoTargetTwice(connections) => NoTargetTwice(connections')
       /\ \A i \in 1..Len(emitted') :
             (nEvents' # nEvents /\ <<emitted'[i][1], emitted'[i][2]>> \in Edges(connections))
                => connections' = connections
       /\ (nEvents' # nEvents /\ emitted' # <<>>) =>
             \A i \in 1..Len(emitted') :
                 <<emitted'[i][1], emitted'[i][2]>> \in Edges(connections')
      ]_vars

\* the connection sample-3 -> sample-6 of the sample data was drawn a second
\* time and the overlay is still the sample's
WitnessConnectionsAreASet ==
    /\ lastEvent = "handleMouseUp"
    /\ emitted = << <<3, 6>> >>
    /\ connections = sampleConnections

(* C21: after any sequence of add-task, add-subtask, delete,               *)
(* clear-completed, collapse / expand and drag-and-drop moves from the     *)
(* sample data the children relation is a tree: no task id occurs more     *)
(* than once in the task tree, so no task has two parents.                 *)
TasksHaveUniqueIds ==
    \A p, q \in PathsOf(tasks) : NodeAt(tasks, p).id = NodeAt(tasks, q).id => p = q

\* a drop has left sample-3 two levels down (under a child of a top-level
\* task), in a tree that a task was added to
WitnessTasksHaveUniqueIds ==
    /\ lastEvent = "handleDrop"
    /\ nextId > FirstNewId
    /\ \E p \in PathsOf(tasks) : Len(p) = 3 /\ NodeAt(tasks, p).id = 3
    /\ Cardinality(AllIds(tasks)) >= 6

(* C22: a custom connector is a detour arc exactly when its source lies    *)
(* deeper in the tree than its target, and an S-curve otherwise (same      *)
(* depth or forward).  Both control points of the arc have y = -100 when   *)
(* the midpoint of the two anchor y's is strictly less than half the       *)
(* canvas height, and y = canvas height + 100 otherwise: a connection      *)
(* exactly at the middle of the canvas goes below.                         *)
DepthOfVisible(ts, id) ==
    Len(CHOOSE p \in VisiblePaths(ts) : NodeAt(ts, p).id = id) - 1

\* the control points of c lie level with its anchors
IsSCurve(c) == c.d[4] = c.d[2] /\ c.d[6] = c.d[8]

\* both control points of c lie at height y
IsArcAt(c, y) == c.d[4] = RInt(y) /\ c.d[6] = RInt(y)

BackwardConnectorsDetour ==
    LET l == useMindmapLayout(tasks)
        c == customConnectors(l.positions, connections, l.height)
    IN  \A i \in 1..Len(c) :
            LET s == PosOfVisible(l.positions, tasks, c[i].sourceId)
                t == PosOfVisible(l.positions, tasks, c[i].targetId)
                twiceMid == (s.y + 40) + (t.y + 40)
            IN  IF DepthOfVisible(tasks, c[i].sourceId) > DepthOfVisible(tasks, c[i].targetId)
                THEN /\ ~IsSCurve(c[i])
                     /\ IF twiceMid < l.height
                        THEN IsArcAt(c[i], -100)
                        ELSE IsArcAt(c[i], l.height + 100)
                ELSE IsSCurve(c[i])

\* sample-2 -> sample-4 was drawn on the sample data: the anchors are at
\* y = 40 and y = 380, their midpoint 210 is half the canvas height 420, and
\* the arc goes below, at 520; sample-3 -> sample-6 is hidden
WitnessBackwardConnectorsDetour ==
    LET l == useMindmapLayout(tasks)
        c == customConnectors(l.positions, connections, l.height)
    IN  /\ l.height = 420
        /\ \E i \in 1..Len(c) :
              /\ c[i].sourceId = 2 /\ c[i].targetId = 4
              /\ c[i].d[2] = RInt(40) /\ c[i].d[8] = RInt(380)
              /\ IsArcAt(c[i], 520)

(* C23: a click on the custom connector (s, t) removes exactly the edge    *)
(* (s, t) from the connections map and leaves every other edge in place,   *)
(* a source with no remaining target having no entry at all; adding an     *)
(* absent edge and then deleting it gives back the map as it was.          *)
DeleteRemovesOneEdge ==
    [][/\ (nEvents' # nEvents /\ lastEvent' = "onDeleteConnection") =>
             LET e == clicked'[1] IN
             /\ e \in Edges(connections)
             /\ Edges(connections') = Edges(connections) \ {e}
             /\ \A s \in DOMAIN connections' : connections'[s] # <<>>
             /\ \A s \in DOMAIN connections \ {e[1]} :
                   s \in DOMAIN connections' /\ connections'[s] = connections[s]
             /\ e[1] \in DOMAIN connections' =>
                   \A j, k \in 1..Len(connections'[e[1]]) :
                       j < k => \E a, b \in 1..Len(connections[e[1]]) :
                                   /\ a < b
                                   /\ connections[e[1]][a] = connections'[e[1]][j]
                                   /\ connections[e[1]][b] = connections'[e[1]][k]
       /\ \A s, t \in AllIds(tasks) :
             (s # t /\ <<s, t>> \notin Edges(connections)) =>
                handleDeleteConnection(addConnection(connections, s, t), s, t) = connections
      ]_vars

\* a connection from sample-2 was drawn and its connector clicked: the map
\* is the sample's again, without an entry for sample-2
WitnessDeleteRemovesOneEdge ==
    /\ lastEvent = "onDeleteConnection"
    /\ clicked # NULL /\ clicked[1][1] = 2
    /\ connections = sampleConnections
    /\ 2 \notin DOMAIN connections

(* C24: within one layout computation the metrics pass is complete for     *)
(* every top-level task before the first position is assigned, and the     *)
(* position pass never reads a missing height: every node layout() visits  *)
(* (every visible node, each child whose height advances the next band     *)
(* among them) has an entry in subtreeHeights.                              *)
HeightsCompleteBeforePositions ==
    LET m == subtreeHeights(tasks)
        visited == { NodeAt(tasks, p).id : p \in VisiblePaths(tasks) }
    IN  /\ \A i \in 1..Len(tasks) : tasks[i].id \in DOMAIN m
        /\ visited \subseteq DOMAIN m
        /\ LET ps == useMindmapLayout(tasks).positions IN
           /\ { ps[i].task.id : i \in 1..Len(ps) } = visited
           /\ \A i \in 1..Len(ps) :
                 ~ps[i].task.collapsed =>
                    \A k \in 1..Len(ps[i].task.children) :
                        ps[i].task.children[k].id \in DOMAIN m

\* a third top-level task was added below two expanded ones: the position
\* pass reads seven heights
WitnessHeightsCompleteBeforePositions ==
    /\ Len(tasks) = 3
    /\ \A i \in 1..2 : ~tasks[i].collapsed /\ Len(tasks[i].children) = 2
    /\ Len(useMindmapLayout(tasks).positions) = 7
    /\ Cardinality(DOMAIN subtreeHeights(tasks)) = 7

(* C25: after a confirmed handleDelete(id) the task id and all of its      *)
(* descendants are absent from the tree and every other task is still      *)
(* present; the connections map holds no edge whose source or target is a  *)
(* deleted id, and every edge between two surviving tasks is kept.         *)
\* the ids of the subtree of the task with that id
SubtreeIds(ts, id) ==
    LET p == CHOOSE q \in PathsOf(ts) : NodeAt(ts, q).id = id
    IN  {id} \cup DescendantIds(ts, p)

\* in these behaviours the steps that take tasks out of the tree are the
\* deletions
DeleteRemovesSubtreeAndItsEdges ==
    [][AllIds(tasks') # AllIds(tasks) =>
          \E id \in AllIds(tasks) :
              LET gone == SubtreeIds(tasks, id) IN
              /\ AllIds(tasks') = AllIds(tasks) \ gone
              /\ \A e \in Edges(connections') : e[1] \notin gone /\ e[2] \notin gone
              /\ \A e \in Edges(connections) :
                    (e[1] \notin gone /\ e[2] \notin gone) => e \in Edges(connections')
              /\ Edges(connections') \subseteq Edges(connections)
      ]_vars

\* sample-2 was connected to sample-5 and sample-3 was deleted: the sample's
\* edge from sample-3 is gone, the drawn one is kept
WitnessDeleteRemovesSubtreeAndItsEdges ==
    /\ AllIds(tasks) = {1, 2, 4, 5, 6}
    /\ Edges(connections) = {<<2, 5>>}
    /\ lastEvent = "handleMouseUp"

(* C26: in every reachable state every source id and every target id of    *)
(* the connections map is the id of a task of the task tree: no tree       *)
(* mutation (delete, clear-completed, reset, drag-and-drop) leaves a       *)
(* dangling connection behind.                                             *)
ConnectionsReferToTasks ==
    \A e \in Edges(connections) : e[1] \in AllIds(tasks) /\ e[2] \in AllIds(tasks)

(* C27: a drag-and-drop move only relocates the dragged subtree: for every *)
(* dragged task, every target task other than it and every drop position   *)
(* the set of task ids of the tree is the same before and after            *)
(* handleDrop.                                                             *)
DropKeepsTaskIds ==
    [][(nEvents' # nEvents /\ lastEvent' = "handleDrop") =>
          AllIds(tasks') = AllIds(tasks)]_vars

(* C28: if a task's timerState is Running and the one-second tick keeps    *)
(* firing with no further timer control on that task, the task eventually  *)
(* reaches timerState = Finished with timerRemaining = 0, from every state *)
(* reachable through set-timer, start, pause, reset and extend.  (The      *)
(* controls a running timer offers are pause and reset, which leave it     *)
(* Paused and Idle.)                                                       *)
TimerStateOf(id) == findTaskInTree(tasks, id)[1].timerState
TimerRemainingOf(id) == findTaskInTree(tasks, id)[1].timerRemaining

RunningTimerFinishes ==
    \A id \in AllIds(sampleData) :
        (TimerStateOf(id) = Some("Running"))
            ~> \/ TimerStateOf(id) = Some("Finished") /\ TimerRemainingOf(id) = Some(0)
               \/ TimerStateOf(id) \in {Some("Paused"), Some("Idle")}

(* C29: in every state reachable through set-timer, start, pause, reset,   *)
(* extend and ticks each task that has a timer satisfies                   *)
(* 0 <= timerRemaining <= timerDuration, timerState = Finished implies     *)
(* timerRemaining = 0, and a tick changes timerRemaining, by exactly -1,   *)
(* only for tasks whose timerState is Running.                             *)
TimerInRange(task) ==
    /\ task.timerRemaining # NULL
    /\ 0 <= task.timerRemaining[1]
    /\ task.timerRemaining[1] <= task.timerDuration[1]
    /\ task.timerState = Some("Finished") => task.timerRemaining = Some(0)

TimersStayInRange ==
    [][/\ \A id \in TimedIds(tasks') : TimerInRange(findTaskInTree(tasks', id)[1])
       /\ lastEvent' = "tick" =>
             \A id \in AllIds(tasks) :
                 LET before == findTaskInTree(tasks, id)[1]
                     after == findTaskInTree(tasks', id)[1]
                 IN  after.timerRemaining # before.timerRemaining =>
                        /\ before.timerState = Some("Running")
                        /\ after.timerRemaining = Some(before.timerRemaining[1] - 1)
      ]_vars

\* a two-minute timer was started, ticked once and paused, and the interval
\* has fired again: 119 seconds are left
WitnessTimersStayInRange ==
    /\ lastEvent = "tick"
    /\ \E id \in TimedIds(tasks) :
          LET task == findTaskInTree(tasks, id)[1] IN
          /\ task.timerState = Some("Paused")
          /\ task.timerDuration = Some(120)
          /\ task.timerRemaining = Some(119)

(* C30: Save to GitHub and Load from GitHub only ever use a verified       *)
(* token: whenever isTokenValid is true, the token held in the input field *)
(* is one for which verifyToken returned true, under every interleaving of *)
(* token edits with the verifications in flight (the one started on mount  *)
(* and those started by the Verify button).                                *)
ValidTokenIsVerified ==
    /\ isTokenValid = Some(TRUE) => token \in verified
    /\ used \subseteq verified

====
